---- MODULE Spec2Model ----
(***************************************************************************)
(* Verification model of lab-integrator-destock: the per-analyte Result   *)
(* Sender (lab_core/result_flow.py), the Dispatch Cycle                    *)
(* (lab_core/dispatcher.py, lab_core/db.py) and the monitor's dispatch     *)
(* timer (apps/monitor/main.py).                                           *)
(***************************************************************************)
EXTENDS Integers, Sequences, FiniteSets, TLC

VARIABLES
    \* Result Sender called on its own: the caller's record, what the
    \* collaborators will do, and the outcome.
    snd_pc, snd_rec, snd_env, snd_out,
    \* the SQLite store: hl7_results (headers) and hl7_obx_results (analytes)
    hl7_results, hl7_obx_results,
    \* every API client call made by dispatch cycles, in order
    http_log,
    \* MainWindow: _export_enabled, _export_batch_size, _dispatch_running,
    \* the text of _xml_status, and the signals queued to the GUI thread
    export_enabled, export_batch_size, dispatch_running, xml_status, signals,
    \* what the last timer tick did
    tick_result,
    \* DispatchWorker threads alive, and the cycle being run: position,
    \* pend (the rows picked), todo (the rows still to process, in
    \* processing order), sent, err, the open connection
    workers, cyc,
    \* cycles started so far, and the last row a cycle processed
    cycles, last_row,
    \* the frame splitter called on its own: the payloads the peer framed
    \* (when it sent well-formed frames), the buffer, what split_messages
    \* returned, and what the listener's extraction loop left
    spl_pc, spl_sent, spl_buf, spl_out, spl_loop,
    \* MLLPServer: its attributes _sock, _stop, _thread, _counter; the accept
    \* threads it has created (thread t runs _run); the connections accepted,
    \* each with its handler thread (_handle_client); the connections waiting
    \* in the listen queue; the files written by _save_hl7; the clock, in
    \* seconds; whether another process holds the port; and the thread that
    \* calls start() and stop(): its position, its last call, its calls of
    \* stop() so far
    _sock, _stop, _thread, _counter, accept_threads, conns, backlog, files,
    clock, port_in_use, caller,
    \* a function called on its own: the function and its arguments, the
    \* caller's position, and what the call returned or raised
    call, call_pc, ret

sndVars == <<snd_pc, snd_rec, snd_env, snd_out>>
dbVars == <<hl7_results, hl7_obx_results>>
guiVars == <<export_enabled, export_batch_size, dispatch_running, xml_status, signals, tick_result>>
workerVars == <<workers, cyc, cycles, last_row, http_log>>
splVars == <<spl_pc, spl_sent, spl_buf, spl_out, spl_loop>>
srvVars == <<_sock, _stop, _thread, _counter, accept_threads, port_in_use, caller>>
connVars == <<conns, backlog, files, clock>>
netVars == <<srvVars, connVars>>
callVars == <<call, call_pc, ret>>
vars == <<sndVars, dbVars, guiVars, workerVars, splVars, netVars, callVars>>

\* ------------------------------------------------------------------------
\* Python values
\* ------------------------------------------------------------------------

\* Python's None where a string is expected, and a key missing from a dict.
None == "<None>"
Absent == "<absent>"
\* None where an int is expected (exam ids are positive integers).
NoneId == -1

\* Python truthiness of the values a record field can hold; the non-string
\* values False, True, 0 and 1 are written "py:False", "py:True", "py:0", "py:1".
Truthy(v) == v \notin {None, Absent, "", "py:False", "py:0"}

\* dict.get(key, default)
Get(v, default) == IF v = Absent THEN default ELSE v

\* a or b
Or(a, b) == IF Truthy(a) THEN a ELSE b

\* str.strip() over the strings of the model
Strip(s) ==
    CASE s = " " -> ""
      [] s = " ICON3 " -> "ICON3"
      [] OTHER -> s

\* ------------------------------------------------------------------------
\* Result Sender: lab_core/result_flow.py
\* ------------------------------------------------------------------------

MAPPING_NOT_FOUND == "MAPPING_NOT_FOUND"
EXAM_NOT_FOUND == "EXAM_NOT_FOUND"
ORDER_DATE_MISSING == "ORDER_DATE_MISSING"
XML_BUILD_ERROR == "XML_BUILD_ERROR"
API_SEND_ERROR == "API_SEND_ERROR"
UNKNOWN == "UNKNOWN"

ErrorCode ==
    {MAPPING_NOT_FOUND, EXAM_NOT_FOUND, ORDER_DATE_MISSING, XML_BUILD_ERROR,
     API_SEND_ERROR, UNKNOWN}

\* The Context dataclass; NoCtx stands for "ctx is None".
Context(analyzer, obx_text, tubo, client_code, id_examen, order_date, paciente_id) ==
    [analyzer |-> analyzer, obx_text |-> obx_text, tubo_muestra |-> tubo,
     client_code |-> client_code, id_examen |-> id_examen,
     order_date |-> order_date, paciente_id |-> paciente_id]

NoCtx == Context("", "", "", None, NoneId, None, None)

\* What a step of the flow ends with: it returns (exc = "none"), raises a
\* FlowError carrying an ErrorCode, or raises any other Exception.  calls is
\* the list of API client calls the step made.
Returned(ctx, calls) ==
    [exc |-> "none", code |-> "", msg |-> "", ctx |-> ctx, calls |-> calls]
FlowError(code, msg, calls) ==
    [exc |-> "FlowError", code |-> code, msg |-> msg, ctx |-> NoCtx, calls |-> calls]
PyException(msg, calls) ==
    [exc |-> "Exception", code |-> "", msg |-> msg, ctx |-> NoCtx, calls |-> calls]

\* _resolve_context's test "not order_date" on the exam found;
\* order_date_unchecked is the test left out.
order_date_unchecked(exam) == FALSE

order_date_missing(exam) == ~Truthy(exam.order_date)

\* ResultSender._resolve_context.  env holds what the collaborators do when
\* called: env.mapping is the mapping repo's answer (a client code, None, or
\* "raise"), env.exam the exam repo's.
_resolve_context(obx, env) ==
    LET analyzer == Strip(Or(obx.analyzer, ""))
        obx_text == Strip(Or(obx.text, Or(obx.value_text, "")))
        tubo == Strip(Or(obx.tubo_muestra, Or(obx.barcode, "")))
        obx_pid == IF Truthy(obx.paciente_id) THEN Strip(obx.paciente_id) ELSE None
        exam == env.exam
    IN  IF ~Truthy(analyzer)
          THEN FlowError(MAPPING_NOT_FOUND, "Falta 'analyzer' en OBX.", <<>>)
        ELSE IF ~Truthy(obx_text)
          THEN FlowError(MAPPING_NOT_FOUND, "OBX.text vacio; no se puede mapear.", <<>>)
        ELSE IF ~Truthy(tubo)
          THEN FlowError(EXAM_NOT_FOUND, "Falta 'tubo_muestra' en el OBX.", <<>>)
        ELSE IF env.mapping = "raise"
          THEN PyException("mapping repo failed", <<>>)
        ELSE IF ~Truthy(env.mapping)
          THEN FlowError(MAPPING_NOT_FOUND, "No hay mapping para analyzer y obx_text.", <<>>)
        ELSE IF exam.kind = "raise"
          THEN PyException("exam repo failed", <<>>)
        ELSE IF exam.kind = "none"
          THEN FlowError(EXAM_NOT_FOUND, "No se encontro examen para tubo_muestra.", <<>>)
        ELSE IF exam.id_examen = NoneId
          THEN FlowError(EXAM_NOT_FOUND, "El examen encontrado no tiene 'id_examen'.", <<>>)
        ELSE IF order_date_missing(exam)
          THEN FlowError(ORDER_DATE_MISSING, "El examen encontrado no tiene 'order_date'.", <<>>)
        ELSE Returned(
               Context(analyzer, obx_text, tubo, env.mapping, exam.id_examen,
                       exam.order_date,
                       IF Truthy(exam.paciente_id) THEN exam.paciente_id ELSE obx_pid),
               <<>>)

\* ResultSender._build_xml: the builder's and the tracer's exceptions both
\* become XML_BUILD_ERROR.
_build_xml(ctx, env) ==
    IF env.xml = "raise"
      THEN FlowError(XML_BUILD_ERROR, "Error construyendo XML: builder failed", <<>>)
    ELSE IF env.tracer = "raise_xml"
      THEN FlowError(XML_BUILD_ERROR, "Error construyendo XML: tracer failed", <<>>)
    ELSE Returned(ctx, <<>>)

\* One API client call as the client sees it.
ApiCall(op, ctx, result) ==
    [op |-> op, id_examen |-> ctx.id_examen, paciente |-> Or(ctx.paciente_id, ""),
     result |-> result]

\* ResultSender._send_one: send_result, then the tracer; any exception of
\* either becomes API_SEND_ERROR.
_send_one(ctx, env) ==
    IF env.send = "raise"
      THEN FlowError(API_SEND_ERROR, "Error enviando resultado: HTTP error",
                     <<ApiCall("send_result", ctx, "raise")>>)
    ELSE IF env.tracer = "raise_http"
      THEN FlowError(API_SEND_ERROR, "Error enviando resultado: tracer failed",
                     <<ApiCall("send_result", ctx, "ok")>>)
    ELSE Returned(ctx, <<ApiCall("send_result", ctx, "ok")>>)

\* ResultSender._close_exam
_close_exam(ctx, env) ==
    IF env.close = "raise"
      THEN FlowError(API_SEND_ERROR, "Error cerrando examen: HTTP error",
                     <<ApiCall("close_exam", ctx, "raise")>>)
    ELSE IF env.tracer = "raise_http"
      THEN FlowError(API_SEND_ERROR, "Error cerrando examen: tracer failed",
                     <<ApiCall("close_exam", ctx, "ok")>>)
    ELSE Returned(ctx, <<ApiCall("close_exam", ctx, "ok")>>)

\* The SendResultOutcome dataclass, with what the call did besides returning
\* it: raised (an exception left process_obx) and calls (the API client calls).
SendResultOutcome(ok, ctx, sent_count, errors, raised, calls) ==
    [ok |-> ok, id_examen |-> ctx.id_examen, client_code |-> ctx.client_code,
     order_date |-> ctx.order_date, sent_count |-> sent_count, errors |-> errors,
     raised |-> raised, calls |-> calls]

\* "Error no controlado: {ex}"
Uncontrolled(msg) ==
    CASE msg = "mapping repo failed" -> "Error no controlado: mapping repo failed"
      [] msg = "exam repo failed" -> "Error no controlado: exam repo failed"
      [] OTHER -> "Error no controlado"

\* except_clauses without its "except Exception" clause: only FlowError is
\* caught.
except_flow_error_only(e) ==
    IF e.exc = "FlowError"
      THEN [raised |-> FALSE, errors |-> << <<e.code, e.msg>> >>]
      ELSE [raised |-> TRUE, errors |-> <<>>]

\* The except clauses of process_obx: what _log_err records for the
\* exception e, and whether e leaves process_obx.
except_clauses(e) ==
    IF e.exc = "FlowError"
      THEN [raised |-> FALSE, errors |-> << <<e.code, e.msg>> >>]
      ELSE [raised |-> FALSE, errors |-> << <<UNKNOWN, Uncontrolled(e.msg)>> >>]

\* close_requested reading the flag with a default of True.
close_requested_by_default(obx_record) ==
    Truthy(Get(obx_record.ultimo_del_examen, "py:True"))

\* process_obx's test obx_record.get("ultimo_del_examen", False)
close_requested(obx_record) ==
    Truthy(Get(obx_record.ultimo_del_examen, "py:False"))

\* process_obx that still sends after the XML build failed.
process_obx_sending_anyway(obx_record, env) ==
    LET Failed(e, ctx, sent_count, calls) ==
            LET h == except_clauses(e)
            IN  SendResultOutcome(FALSE, ctx, sent_count, h.errors, h.raised, calls)
        rc == _resolve_context(obx_record, env)
    IN  IF rc.exc # "none" THEN Failed(rc, NoCtx, 0, <<>>)
        ELSE
        LET ctx == rc.ctx
            bx == _build_xml(ctx, env)
            so == _send_one(ctx, env)
        IN  IF bx.exc # "none" THEN Failed(bx, ctx, 0, so.calls)
            ELSE IF so.exc # "none" THEN Failed(so, ctx, 0, so.calls)
            ELSE SendResultOutcome(TRUE, ctx, 1, <<>>, FALSE, so.calls)

\* ResultSender.process_obx
process_obx(obx_record, env) ==
    LET Failed(e, ctx, sent_count, calls) ==
            LET h == except_clauses(e)
            IN  SendResultOutcome(FALSE, ctx, sent_count, h.errors, h.raised, calls)
        rc == _resolve_context(obx_record, env)
    IN  IF rc.exc # "none" THEN Failed(rc, NoCtx, 0, <<>>)
        ELSE
        LET ctx == rc.ctx
            bx == _build_xml(ctx, env)
        IN  IF bx.exc # "none" THEN Failed(bx, ctx, 0, <<>>)
            ELSE
            LET so == _send_one(ctx, env)
            IN  IF so.exc # "none" THEN Failed(so, ctx, 0, so.calls)
                ELSE IF close_requested(obx_record)
                  THEN LET ce == _close_exam(ctx, env)
                       IN  IF ce.exc # "none"
                             THEN Failed(ce, ctx, 1, so.calls \o ce.calls)
                             ELSE SendResultOutcome(TRUE, ctx, 1, <<>>, FALSE,
                                                    so.calls \o ce.calls)
                  ELSE SendResultOutcome(TRUE, ctx, 1, <<>>, FALSE, so.calls)

\* The records a caller may pass and what the collaborators may do.
ObxRecords ==
    [analyzer : {"", " ", "ICON3"},
     text : {"", "WBC"},
     value_text : {Absent, "WBC"},
     tubo_muestra : {None, "T1"},
     barcode : {Absent, "T1"},
     paciente_id : {Absent, "CC1"},
     ultimo_del_examen : {Absent, "py:False", "py:True", "py:0", "no"}]

ExamAnswers ==
    {[kind |-> "raise", id_examen |-> NoneId, order_date |-> None, paciente_id |-> None],
     [kind |-> "none", id_examen |-> NoneId, order_date |-> None, paciente_id |-> None]}
    \cup [kind : {"row"}, id_examen : {NoneId, 7}, order_date : {None, "2025-11-11"},
          paciente_id : {None, "D1"}]

Envs ==
    [mapping : {"raise", None, "C1"},
     exam : ExamAnswers,
     xml : {"ok", "raise"},
     tracer : {"off", "ok", "raise_xml", "raise_http"},
     send : {"ok", "raise"},
     close : {"ok", "raise"}]

NoOutcome == SendResultOutcome(FALSE, NoCtx, 0, <<>>, FALSE, <<>>)


\* ------------------------------------------------------------------------
\* The store: lab_core/db.py
\* ------------------------------------------------------------------------

\* Bounds of the model.
MaxRows == 3
MaxResults == 2
MaxCycles == 2

\* The values of results_export.batch_size the monitor is configured with.
BatchSizes == {1, 2}

SENT == "SENT"
ERROR == "ERROR"
SKIPPED == "SKIPPED"
PENDING == "PENDING"

\* SQL's COALESCE(v, d)
Coalesce(v, d) == IF v = None THEN d ELSE v

\* A row of hl7_obx_results as result_ingest inserts it: the export_*
\* columns keep their defaults (NULL, export_attempts 0).
ObxRow(result_id, text, export_status) ==
    [result_id |-> result_id, text |-> text, export_status |-> export_status,
     export_attempts |-> 0, export_error |-> <<>>, exported_at |-> 0]

\* mark_obx_exported writing the status the dispatcher's docstring names.
mark_obx_exported_as_exported(rows, obx_id, now) ==
    [rows EXCEPT ![obx_id] =
        [@ EXCEPT !.export_status = "EXPORTED", !.export_error = <<>>,
                  !.exported_at = now, !.export_attempts = @ + 1]]

\* db.mark_obx_exported; now is the clock reading written to exported_at.
mark_obx_exported(rows, obx_id, now) ==
    [rows EXCEPT ![obx_id] =
        [@ EXCEPT !.export_status = SENT, !.export_error = <<>>,
                  !.exported_at = now, !.export_attempts = @ + 1]]

\* mark_obx_error without "export_attempts = COALESCE(export_attempts,0)+1".
mark_obx_error_keeps_attempts(rows, obx_id, err) ==
    [rows EXCEPT ![obx_id] = [@ EXCEPT !.export_status = ERROR, !.export_error = err]]

\* db.mark_obx_error
mark_obx_error(rows, obx_id, err) ==
    [rows EXCEPT ![obx_id] =
        [@ EXCEPT !.export_status = ERROR, !.export_error = err,
                  !.export_attempts = @ + 1]]

\* db.mark_obx_mapping_not_found: imported by the dispatcher, not defined in
\* lab_core/db.py as given; modelled on the design's description of it.
mark_obx_mapping_not_found(rows, obx_id) ==
    [rows EXCEPT ![obx_id] =
        [@ EXCEPT !.export_status = MAPPING_NOT_FOUND,
                  !.export_attempts = @ + 1]]

\* ------------------------------------------------------------------------
\* Dispatch Cycle: lab_core/dispatcher.py
\* ------------------------------------------------------------------------

Min(a, b) == IF a < b THEN a ELSE b

\* SQL's LIMIT: a negative limit means no limit.
Limit(s, limit) == IF limit < 0 THEN s ELSE SubSeq(s, 1, Min(limit, Len(s)))

\* The rows picked under the WHERE clause that excludes the statuses in
\* excluded.
SelectWhereNotIn(rows, limit, excluded) ==
    LET Keep(i) == Coalesce(rows[i].export_status, "") \notin excluded
        ids == Limit(SelectSeq([i \in 1..Len(rows) |-> i], Keep), limit)
    IN  [k \in 1..Len(ids) |-> [obx_id |-> ids[k], result_id |-> rows[ids[k]].result_id]]

\* _select_pending_obx with SENT left out of its NOT IN list.
select_pending_with_sent(rows, limit) == SelectWhereNotIn(rows, limit, {SKIPPED, ERROR})

\* _select_pending_obx with SKIPPED left out of its NOT IN list.
select_pending_with_skipped(rows, limit) == SelectWhereNotIn(rows, limit, {SENT, ERROR})

\* _select_pending_obx with ORDER BY o.id DESC.
select_pending_descending(rows, limit) ==
    LET Keep(i) == Coalesce(rows[i].export_status, "") \notin {SENT, SKIPPED, ERROR}
        asc == SelectSeq([i \in 1..Len(rows) |-> i], Keep)
        ids == Limit([k \in 1..Len(asc) |-> asc[Len(asc) + 1 - k]], limit)
    IN  [k \in 1..Len(ids) |-> [obx_id |-> ids[k], result_id |-> rows[ids[k]].result_id]]

\* dispatcher._select_pending_obx: the (obx_id, result_id) pairs picked.
_select_pending_obx(rows, limit) ==
    SelectWhereNotIn(rows, limit, {SENT, SKIPPED, ERROR})

\* GroupOrder keeping only the rows of the first result picked.
GroupOrderFirstOnly(pend) ==
    IF pend = <<>> THEN <<>>
    ELSE LET Same(p) == p.result_id = pend[1].result_id
         IN  SelectSeq(pend, Same)

\* The order dispatch_cycle processes the picked rows in: grouped by
\* result_id, the groups in order of first appearance (by_result).
RECURSIVE GroupOrder(_)
GroupOrder(pend) ==
    IF pend = <<>> THEN <<>>
    ELSE LET r == pend[1].result_id
             Same(p) == p.result_id = r
             Other(p) == p.result_id # r
         IN  SelectSeq(pend, Same) \o GroupOrder(SelectSeq(pend, Other))

\* The place of a header deleted by maintenance.purge_results (DELETE FROM
\* hl7_results): ids are not reused, the analyte rows stay.
PurgedHeader == [analyzer_name |-> "<purged>", patient_id |-> "<purged>"]

\* dispatcher._build_obx_record_from_db: the record, or "raise" when the
\* header or the analyte row is not found.
_build_obx_record_from_db(results, rows, result_id, obx_id) ==
    IF \/ result_id \notin 1..Len(results)
       \/ results[result_id] = PurgedHeader
       \/ obx_id \notin 1..Len(rows)
      THEN [exc |-> "Exception", rec |-> <<>>]
      ELSE [exc |-> "none",
            rec |-> [analyzer |-> Strip(Or(results[result_id].analyzer_name, "")),
                     text |-> Or(rows[obx_id].text, ""),
                     value_text |-> Absent,
                     tubo_muestra |-> Strip(Or(results[result_id].patient_id, "")),
                     barcode |-> Absent,
                     paciente_id |-> Absent,
                     ultimo_del_examen |-> "py:False"]]

\* "; ".join(f"{code}: {text}" ...) or "UNKNOWN_ERROR", as the list of its parts
RECURSIVE JoinErrors(_)
JoinErrors(errors) ==
    IF errors = <<>> THEN <<>>
    ELSE <<errors[1][1], errors[1][2]>> \o JoinErrors(Tail(errors))

ErrorMessage(errors) == IF errors = <<>> THEN <<"UNKNOWN_ERROR">> ELSE JoinErrors(errors)

\* mark_outcome without the test for a mapping error: every failure is
\* marked ERROR.
mark_outcome_all_errors(rows, obx_id, outcome, now) ==
    IF outcome.ok
      THEN mark_obx_exported(rows, obx_id, now)
      ELSE mark_obx_error(rows, obx_id, ErrorMessage(outcome.errors))

\* mark_outcome without the test of outcome.ok: every row is marked SENT.
mark_outcome_always_exported(rows, obx_id, outcome, now) ==
    mark_obx_exported(rows, obx_id, now)

\* dispatch_cycle lines 502-522: the mark an outcome gives row obx_id.
mark_outcome(rows, obx_id, outcome, now) ==
    IF outcome.ok
      THEN mark_obx_exported(rows, obx_id, now)
    ELSE IF \E k \in 1..Len(outcome.errors) : outcome.errors[k][1] = MAPPING_NOT_FOUND
      THEN mark_obx_mapping_not_found(rows, obx_id)
    ELSE mark_obx_error(rows, obx_id, ErrorMessage(outcome.errors))


\* The return value of dispatch_cycle.
Stats(picked, sent, error) == [picked |-> picked, sent |-> sent, error |-> error]

\* No cycle in progress: no rows held, the connection closed.
IdleCycle ==
    [pc |-> "idle", pend |-> <<>>, todo |-> <<>>, done |-> <<>>, sent |-> 0, err |-> 0,
     conn_open |-> FALSE]

NoRow ==
    [obx_id |-> 0, prev_status |-> None, prev_error |-> <<>>, prev_attempts |-> 0,
     ok |-> FALSE, exception |-> FALSE, errors |-> <<>>, cycle |-> 0]

\* What the collaborators may do during a dispatch cycle: the mapping file
\* and the exams table are read afresh on every call, the API may fail.
DispatchEnvs ==
    [mapping : {None, "C1"},
     exam : {[kind |-> "none", id_examen |-> NoneId, order_date |-> None, paciente_id |-> None],
             [kind |-> "row", id_examen |-> 7, order_date |-> "2025-11-11", paciente_id |-> "D1"]},
     xml : {"ok", "raise"},
     tracer : {"off"},
     send : {"ok", "raise"},
     close : {"ok"}]

\* The API client calls of one process_obx call, as logged for row obx_id.
LogCalls(calls, obx_id, cycle) ==
    [k \in 1..Len(calls) |->
        [op |-> calls[k].op, id_examen |-> calls[k].id_examen,
         result |-> calls[k].result, obx_id |-> obx_id, cycle |-> cycle]]

\* dispatch_cycle, lines 434-486: build the sender, select the pending rows,
\* return at once when there are none.  Loading the settings or the mapping
\* file may raise; DispatchWorker.run then emits errored.
BeginCycle(setup) ==
    /\ workers > 0
    /\ cyc.pc = "start"
    /\   IF setup = "raise"
           THEN /\ cyc' = IdleCycle
                /\ workers' = workers - 1
                /\ signals' = Append(signals, [kind |-> "errored", stats |-> Stats(0, 0, 0)])
           ELSE LET pend == _select_pending_obx(hl7_obx_results, export_batch_size)
                IN  IF pend = <<>>
                      THEN /\ cyc' = IdleCycle
                           /\ workers' = workers - 1
                           /\ signals' = Append(signals,
                                  [kind |-> "finished", stats |-> Stats(0, 0, 0)])
                      ELSE /\ cyc' = [pc |-> "loop", pend |-> pend,
                                      todo |-> GroupOrder(pend), done |-> <<>>,
                                      sent |-> 0, err |-> 0,
                                      conn_open |-> TRUE]
                           /\ UNCHANGED <<workers, signals>>
    /\ UNCHANGED <<sndVars, splVars, callVars, netVars, dbVars, http_log, cycles, last_row>>
    /\ UNCHANGED <<export_enabled, export_batch_size, dispatch_running, xml_status, tick_result>>

\* The worker thread starts dispatch_cycle; its setup succeeds or raises.
WorkerBegin == \E setup \in {"ok", "raise"} : BeginCycle(setup)

\* WorkerProcessRow without the try inside the loop: a failed row ends the
\* cycle.
WorkerProcessRowAborting ==
    /\ workers > 0
    /\ cyc.pc = "loop"
    /\ cyc.todo # <<>>
    /\ \E env \in DispatchEnvs :
         LET obx_id == cyc.todo[1].obx_id
             result_id == cyc.todo[1].result_id
             prev == hl7_obx_results[obx_id].export_status
             built == _build_obx_record_from_db(hl7_results, hl7_obx_results,
                                                result_id, obx_id)
             outcome == IF built.exc = "none" THEN process_obx(built.rec, env)
                        ELSE NoOutcome
             exception == built.exc # "none" \/ outcome.raised
         IN  /\ hl7_obx_results' =
                    IF exception
                      THEN mark_obx_error(hl7_obx_results, obx_id, <<"EXCEPTION">>)
                      ELSE mark_outcome(hl7_obx_results, obx_id, outcome, cycles)
             /\ http_log' = http_log \o LogCalls(outcome.calls, obx_id, cycles)
             /\ cyc' = [cyc EXCEPT !.todo = IF ~exception /\ outcome.ok THEN Tail(@) ELSE <<>>,
                                   !.done = Append(@, obx_id),
                                   !.sent = IF ~exception /\ outcome.ok THEN @ + 1 ELSE @,
                                   !.err = IF ~exception /\ outcome.ok THEN @ ELSE @ + 1]
             /\ last_row' = [obx_id |-> obx_id, prev_status |-> prev,
                             prev_error |-> hl7_obx_results[obx_id].export_error,
                             prev_attempts |-> hl7_obx_results[obx_id].export_attempts,
                             exception |-> exception,
                             ok |-> ~exception /\ outcome.ok,
                             errors |-> outcome.errors, cycle |-> cycles]
    /\ UNCHANGED <<sndVars, splVars, callVars, netVars, hl7_results, guiVars, workers, cycles>>

\* dispatch_cycle, lines 488-530: one picked row: build its record, call
\* process_obx, mark the row, commit.
ProcessRow(env) ==
    /\ workers > 0
    /\ cyc.pc = "loop"
    /\ cyc.todo # <<>>
    /\   LET obx_id == cyc.todo[1].obx_id
             result_id == cyc.todo[1].result_id
             prev == hl7_obx_results[obx_id].export_status
             built == _build_obx_record_from_db(hl7_results, hl7_obx_results,
                                                result_id, obx_id)
             outcome == IF built.exc = "none" THEN process_obx(built.rec, env)
                        ELSE NoOutcome
             exception == built.exc # "none" \/ outcome.raised
         IN  /\ hl7_obx_results' =
                    IF exception
                      THEN mark_obx_error(hl7_obx_results, obx_id, <<"EXCEPTION">>)
                      ELSE mark_outcome(hl7_obx_results, obx_id, outcome, cycles)
             /\ http_log' = http_log \o LogCalls(outcome.calls, obx_id, cycles)
             /\ cyc' = [cyc EXCEPT !.todo = Tail(@),
                                   !.done = Append(@, obx_id),
                                   !.sent = IF ~exception /\ outcome.ok THEN @ + 1 ELSE @,
                                   !.err = IF ~exception /\ outcome.ok THEN @ ELSE @ + 1]
             /\ last_row' = [obx_id |-> obx_id, prev_status |-> prev,
                             prev_error |-> hl7_obx_results[obx_id].export_error,
                             prev_attempts |-> hl7_obx_results[obx_id].export_attempts,
                             exception |-> exception,
                             ok |-> ~exception /\ outcome.ok,
                             errors |-> outcome.errors, cycle |-> cycles]
    /\ UNCHANGED <<sndVars, splVars, callVars, netVars, hl7_results, guiVars, workers, cycles>>

\* The worker thread processes the next picked row, the collaborators
\* answering in any way.
WorkerProcessRow == \E env \in DispatchEnvs : ProcessRow(env)

\* dispatch_cycle, lines 532-537: return the counts, close the connection;
\* DispatchWorker.run emits finished.
WorkerReturn ==
    /\ workers > 0
    /\ cyc.pc = "loop"
    /\ cyc.todo = <<>>
    /\ signals' = Append(signals,
           [kind |-> "finished", stats |-> Stats(Len(cyc.pend), cyc.sent, cyc.err)])
    /\ cyc' = IdleCycle
    /\ workers' = workers - 1
    /\ UNCHANGED <<sndVars, splVars, callVars, netVars, dbVars, http_log, cycles, last_row>>
    /\ UNCHANGED <<export_enabled, export_batch_size, dispatch_running, xml_status, tick_result>>

\* ------------------------------------------------------------------------
\* The monitor's dispatch timer: apps/monitor/main.py
\* ------------------------------------------------------------------------

\* _kick_dispatch without its test of _dispatch_running.
KickDispatchUnguarded ==
    /\ IF ~export_enabled
         THEN /\ tick_result' = "disabled"
              /\ UNCHANGED <<dispatch_running, xml_status, workers, cyc, cycles>>
       ELSE /\ cycles < MaxCycles
            /\ dispatch_running' = TRUE
            /\ xml_status' = [text |-> "running", stats |-> Stats(0, 0, 0)]
            /\ workers' = workers + 1
            /\ cyc' = [IdleCycle EXCEPT !.pc = "start"]
            /\ cycles' = cycles + 1
            /\ tick_result' = "started"
    /\ UNCHANGED <<sndVars, splVars, callVars, netVars, dbVars, http_log, last_row>>
    /\ UNCHANGED <<export_enabled, export_batch_size, signals>>

\* MainWindow._kick_dispatch, the slot of the timer's timeout.
KickDispatch ==
    /\ IF ~export_enabled
         THEN /\ tick_result' = "disabled"
              /\ UNCHANGED <<dispatch_running, xml_status, workers, cyc, cycles>>
       ELSE IF dispatch_running
         THEN /\ tick_result' = "busy"
              /\ UNCHANGED <<dispatch_running, xml_status, workers, cyc, cycles>>
       ELSE /\ cycles < MaxCycles
            /\ dispatch_running' = TRUE
            /\ xml_status' = [text |-> "running", stats |-> Stats(0, 0, 0)]
            /\ workers' = workers + 1
            /\ cyc' = [IdleCycle EXCEPT !.pc = "start"]
            /\ cycles' = cycles + 1
            /\ tick_result' = "started"
    /\ UNCHANGED <<sndVars, splVars, callVars, netVars, dbVars, http_log, last_row>>
    /\ UNCHANGED <<export_enabled, export_batch_size, signals>>

\* MainWindow._on_dispatch_done, run in the GUI thread for a queued finished signal.
OnDispatchDone ==
    /\ signals # <<>>
    /\ signals[1].kind = "finished"
    /\ xml_status' = [text |-> "stats", stats |-> signals[1].stats]
    /\ dispatch_running' = FALSE
    /\ signals' = Tail(signals)
    /\ UNCHANGED <<sndVars, splVars, callVars, netVars, dbVars, workerVars>>
    /\ UNCHANGED <<export_enabled, export_batch_size, tick_result>>

\* OnDispatchErr showing the error and leaving the flag set.
OnDispatchErrKeepingFlag ==
    /\ signals # <<>>
    /\ signals[1].kind = "errored"
    /\ xml_status' = [text |-> "error", stats |-> Stats(0, 0, 0)]
    /\ signals' = Tail(signals)
    /\ UNCHANGED <<sndVars, splVars, callVars, netVars, dbVars, workerVars>>
    /\ UNCHANGED <<export_enabled, export_batch_size, dispatch_running, tick_result>>

\* MainWindow._on_dispatch_err, run in the GUI thread for a queued errored signal.
OnDispatchErr ==
    /\ signals # <<>>
    /\ signals[1].kind = "errored"
    /\ xml_status' = [text |-> "error", stats |-> Stats(0, 0, 0)]
    /\ dispatch_running' = FALSE
    /\ signals' = Tail(signals)
    /\ UNCHANGED <<sndVars, splVars, callVars, netVars, dbVars, workerVars>>
    /\ UNCHANGED <<export_enabled, export_batch_size, tick_result>>

\* ------------------------------------------------------------------------
\* Ingestion: lab_core/result_ingest.py
\* ------------------------------------------------------------------------

\* The parsed messages ingested: header fields and the analytes' texts.
Messages ==
    {[analyzer_name |-> "ICON3", patient_id |-> "T1", texts |-> <<"WBC">>],
     [analyzer_name |-> " ICON3 ", patient_id |-> "T1", texts |-> <<"WBC", "">>]}

\* result_ingest.save_result_record: one header row and its analyte rows,
\* in one transaction; the export_* columns are left at their defaults.
IngestResult ==
    /\ \E m \in Messages :
         /\ Len(hl7_results) < MaxResults
         /\ Len(hl7_obx_results) + Len(m.texts) <= MaxRows
         /\ hl7_results' = Append(hl7_results,
                [analyzer_name |-> m.analyzer_name, patient_id |-> m.patient_id])
         /\ hl7_obx_results' = hl7_obx_results \o
                [k \in 1..Len(m.texts) |->
                    ObxRow(Len(hl7_results) + 1, m.texts[k], None)]
    /\ UNCHANGED <<sndVars, splVars, callVars, netVars, guiVars, workerVars>>

\* The files ingested on their own: those of Messages and a message
\* without analytes.
IngestMessages ==
    Messages \cup {[analyzer_name |-> "FINECARE", patient_id |-> "", texts |-> <<>>]}

\* Where the ingestion of message m can fail: reading the file, parsing
\* it (either parser), the INSERT of the header (k = 0) or of analyte k,
\* the commit; or nowhere.
Failures(m) ==
    {[stage |-> st, k |-> 0] : st \in {"none", "read", "parse", "insert", "commit"}}
        \cup {[stage |-> "insert", k |-> k] : k \in 1..Len(m.texts)}

\* Inserted with a header like one already stored written only once.
InsertedDeduplicated(results, m, fail) ==
    LET result_id == Len(results) + 1
        header == [analyzer_name |-> m.analyzer_name, patient_id |-> m.patient_id]
        known == \E i \in DOMAIN results : results[i] = header
        n == IF fail.stage = "insert" THEN fail.k - 1 ELSE Len(m.texts)
    IN  [results |-> IF known \/ (fail.stage = "insert" /\ fail.k = 0) THEN <<>>
                     ELSE <<header>>,
         obx |-> IF known THEN <<>>
                 ELSE [k \in 1..n |-> ObxRow(result_id, m.texts[k], None)]]

\* The rows the INSERTs of save_result_record have written on its
\* connection when it ends or fails at fail: the header with the id
\* lastrowid gives it, and the analytes before the failing one.
Inserted(results, m, fail) ==
    LET result_id == Len(results) + 1
        n == IF fail.stage = "insert" THEN fail.k - 1 ELSE Len(m.texts)
    IN  [results |-> IF fail.stage = "insert" /\ fail.k = 0 THEN <<>>
                     ELSE <<[analyzer_name |-> m.analyzer_name,
                             patient_id |-> m.patient_id]>>,
         obx |-> [k \in 1..n |-> ObxRow(result_id, m.texts[k], None)]]

\* save_result_record with every INSERT committed as it is made.
save_result_record_autocommit(results, obx, m, fail) ==
    LET tx == Inserted(results, m, fail)
    IN  [raised |-> fail.stage # "none",
         results |-> results \o tx.results,
         obx |-> obx \o tx.obx]

\* save_result_record: the INSERTs run in the transaction of a connection
\* of its own, made visible by the one conn.commit() at the end; an
\* exception leaves the function before the commit, and the connection is
\* dropped with its transaction.
save_result_record(results, obx, m, fail) ==
    LET tx == Inserted(results, m, fail)
    IN  IF fail.stage = "none"
          THEN [raised |-> FALSE, results |-> results \o tx.results, obx |-> obx \o tx.obx]
          ELSE [raised |-> TRUE, results |-> results, obx |-> obx]

\* ingest_result_file: read, parse, save; every exception is printed and
\* raised again.
ingest_result_file(results, obx, m, fail) ==
    IF fail.stage \in {"read", "parse"}
      THEN [raised |-> TRUE, results |-> results, obx |-> obx]
      ELSE save_result_record(results, obx, m, fail)

\* A caller ingests a file.
IngestCall ==
    /\ call_pc \in {"ready", "returned"}
    /\ \E m \in IngestMessages : \E fail \in Failures(m) :
         /\ fail.stage = "none" =>
               /\ Len(hl7_results) < MaxResults
               /\ Len(hl7_obx_results) + Len(m.texts) <= MaxRows
         /\ LET out == ingest_result_file(hl7_results, hl7_obx_results, m, fail)
            IN  /\ hl7_results' = out.results
                /\ hl7_obx_results' = out.obx
                /\ ret' = [raised |-> out.raised]
         /\ call' = [fn |-> "ingest_result_file", m |-> m, fail |-> fail]
    /\ call_pc' = "returned"
    /\ UNCHANGED <<sndVars, splVars, netVars, guiVars, workerVars>>

\* ------------------------------------------------------------------------
\* MLLP framing: lab_core/connectors/tcp.py, apps/monitor/net_server.py
\* ------------------------------------------------------------------------

\* Bounds of the buffers: the bytes of a buffer, the bytes of a payload and
\* the frames of a well-formed buffer.
MaxBuf == 6
MaxPayload == 2
MaxFrames == 2

\* The bytes 0x0B, 0x1C, 0x0D and any other byte.
VT == "VT"
FS == "FS"
CR == "CR"
Bytes == {VT, FS, CR, "A"}

\* The byte strings of at most n bytes over alphabet.
BytesUpTo(alphabet, n) == UNION {[1..k -> alphabet] : k \in 0..n}

\* bytes.find(pat, from) with positions counted from 1: the first position
\* at or after from where pat occurs, 0 when there is none.
Find(buf, pat, from) ==
    LET hits == {i \in from..(Len(buf) - Len(pat) + 1) :
                    SubSeq(buf, i, i + Len(pat) - 1) = pat}
    IN  IF hits = {} THEN 0 ELSE CHOOSE i \in hits : \A j \in hits : i <= j

\* The bytes of buf from position from on.
From(buf, from) == SubSeq(buf, from, Len(buf))

\* The end of the group of MLLP_PATTERN matched at start with a greedy
\* group (.*): the last end sequence after start.
GreedyGroupEnd(buf, start) ==
    LET ends == {j \in (start + 1)..(Len(buf) - 1) : SubSeq(buf, j, j + 1) = <<FS, CR>>}
    IN  IF ends = {} THEN 0 ELSE CHOOSE j \in ends : \A k \in ends : k <= j

\* The end of the group of MLLP_PATTERN, \x0b(.*?)\x1c\r with DOTALL,
\* matched at start: the non-greedy group stops at the first end sequence
\* after the start byte; 0 when the pattern does not match at start.
GroupEnd(buf, start) == Find(buf, <<FS, CR>>, start + 1)

\* MLLP_PATTERN.findall(buf): the groups of the non-overlapping matches,
\* found left to right, each search trying every start position in turn.
RECURSIVE findall(_)
findall(buf) ==
    LET starts == {i \in 1..Len(buf) : buf[i] = VT /\ GroupEnd(buf, i) # 0}
    IN  IF starts = {} THEN <<>>
        ELSE LET start == CHOOSE i \in starts : \A j \in starts : i <= j
                 end == GroupEnd(buf, start)
             IN  <<SubSeq(buf, start + 1, end - 1)>> \o findall(From(buf, end + 2))

\* split_messages returning what findall found, without the fallback.
split_messages_no_fallback(payload) == findall(payload)

\* connectors.tcp.split_messages
split_messages(payload) ==
    LET msgs == findall(payload)
    IN  IF msgs # <<>> THEN msgs ELSE <<payload>>

\* One pass of the extraction loop of MLLPServer._handle_client (lines
\* 122-130): found says whether a frame was cut out of buf.
NextFrame(buf) ==
    LET start == Find(buf, <<VT>>, 1)
        end == IF start = 0 THEN 0 ELSE Find(buf, <<FS, CR>>, start + 1)
    IN  IF start = 0 \/ end = 0
          THEN [found |-> FALSE, frame |-> <<>>, buf |-> buf]
          ELSE [found |-> TRUE, frame |-> SubSeq(buf, start + 1, end - 1),
                buf |-> From(buf, end + 2)]

\* The extraction loop run until it breaks: the frames cut out, in order,
\* and the bytes left in buf.
RECURSIVE ExtractFrames(_)
ExtractFrames(buf) ==
    LET nf == NextFrame(buf)
    IN  IF ~nf.found THEN [frames |-> <<>>, buf |-> buf]
        ELSE LET more == ExtractFrames(nf.buf)
             IN  [frames |-> <<nf.frame>> \o more.frames, buf |-> more.buf]

\* The payloads of well-formed frames: no start byte and no end byte.
Payloads == BytesUpTo(Bytes \ {VT, FS}, MaxPayload)

\* The lists of at most MaxFrames payloads.
PayloadLists == UNION {[1..n -> Payloads] : n \in 0..MaxFrames}

\* The bytes on the wire for the payloads ps: each framed, concatenated.
RECURSIVE Wire(_)
Wire(ps) ==
    IF ps = <<>> THEN <<>>
    ELSE <<VT>> \o ps[1] \o <<FS, CR>> \o Wire(Tail(ps))

\* The splitter is not called on its own.
SplitterUnused ==
    /\ spl_pc = "unused"
    /\ spl_sent = [framed |-> FALSE, payloads |-> <<>>]
    /\ spl_buf = <<>>
    /\ spl_out = <<>>
    /\ spl_loop = [frames |-> <<>>, buf |-> <<>>]

\* A caller of split_messages and of the extraction loop, with any buffer.
SplitCall ==
    /\ spl_pc = "ready"
    /\ spl_out' = split_messages(spl_buf)
    /\ spl_loop' = ExtractFrames(spl_buf)
    /\ spl_pc' = "returned"
    /\ UNCHANGED <<spl_sent, spl_buf, sndVars, callVars, dbVars, guiVars, workerVars, netVars>>

\* ------------------------------------------------------------------------
\* The MLLP listener: apps/monitor/net_server.py
\* ------------------------------------------------------------------------

\* Bounds: accept threads created, calls of stop(), connections made to the
\* listener from its start, connections handled at once by the running
\* listener, and the last second of the clock.
MaxThreads == 2
MaxStops == 1
MaxAccepted == 1
MaxConns == 2
MaxClock == 1

\* self._sock = None, and a socket object: the thread that created it and
\* its state ("new", "listening", "closed").  self._sock holds the only
\* reference to a socket, so a socket it no longer names is closed.
NoSock == [id |-> 0, state |-> "none"]
Socket(t) == [id |-> t, state |-> "new"]

\* self._thread = None
NoThread == 0

\* threading.Thread(target=self._run): the thread's position in _run, whether
\* it emitted started, and the messages of the error events it emitted.
NewAcceptThread == [pc |-> "create", started |-> FALSE, errors |-> <<>>]

\* Thread.is_alive()
is_alive(t) == t # NoThread /\ accept_threads[t].pc # "done"

\* The connections in the listen queue of sock, after the step that leaves
\* self._sock as after: they are dropped with a listening socket that is
\* closed or no longer referenced.
Backlog(after) ==
    IF after.state = "listening" /\ after.id = _sock.id THEN backlog ELSE <<>>

\* Start without the test of line 31: a thread is created on every call.
StartAlways ==
    /\ caller.pc = "idle"
    /\ Len(accept_threads) < MaxThreads
    /\ _stop' = FALSE
    /\ accept_threads' = Append(accept_threads, NewAcceptThread)
    /\ _thread' = Len(accept_threads) + 1
    /\ caller' = [caller EXCEPT !.last = "start"]
    /\ UNCHANGED <<_sock, _counter, port_in_use, connVars>>
    /\ UNCHANGED <<sndVars, splVars, callVars, dbVars, guiVars, workerVars>>

\* MLLPServer.start.  The caller's last call is recorded in caller.last.
Start ==
    /\ caller.pc = "idle"
    /\ IF is_alive(_thread)
         THEN /\ caller' = [caller EXCEPT !.last = "start_noop"]
              /\ UNCHANGED <<_stop, _thread, accept_threads>>
         ELSE /\ Len(accept_threads) < MaxThreads
              /\ _stop' = FALSE
              /\ accept_threads' = Append(accept_threads, NewAcceptThread)
              /\ _thread' = Len(accept_threads) + 1
              /\ caller' = [caller EXCEPT !.last = "start"]
    /\ UNCHANGED <<_sock, _counter, port_in_use, connVars>>
    /\ UNCHANGED <<sndVars, splVars, callVars, dbVars, guiVars, workerVars>>

\* MLLPServer.stop, line 39: self._stop.set()
StopSet ==
    /\ caller.pc = "idle"
    /\ caller.stops < MaxStops
    /\ _stop' = TRUE
    /\ caller' = [caller EXCEPT !.pc = "poke", !.last = "stop", !.stops = @ + 1]
    /\ UNCHANGED <<_sock, _thread, _counter, accept_threads, port_in_use, connVars>>
    /\ UNCHANGED <<sndVars, splVars, callVars, dbVars, guiVars, workerVars>>

\* The connection stop() opens to wake accept(): no bytes, closed at once.
PokeConn == [inbox |-> <<>>, peer_open |-> FALSE]

\* MLLPServer.stop, lines 41-45: the connection to (host, port), made if a
\* socket listens there, refused (and the exception swallowed) if none.
StopPoke ==
    /\ caller.pc = "poke"
    /\ backlog' = IF _sock.state = "listening" /\ Len(conns) + Len(backlog) < MaxAccepted
                    THEN Append(backlog, PokeConn)
                    ELSE backlog
    /\ caller' = [caller EXCEPT !.pc = "close"]
    /\ UNCHANGED <<_sock, _stop, _thread, _counter, accept_threads, port_in_use>>
    /\ UNCHANGED <<conns, files, clock>>
    /\ UNCHANGED <<sndVars, splVars, callVars, dbVars, guiVars, workerVars>>

\* MLLPServer.stop, lines 47-52: close self._sock if set, self._sock = None.
StopClose ==
    /\ caller.pc = "close"
    /\ _sock' = NoSock
    /\ backlog' = Backlog(NoSock)
    /\ caller' = [caller EXCEPT !.pc = "join"]
    /\ UNCHANGED <<_stop, _thread, _counter, accept_threads, port_in_use>>
    /\ UNCHANGED <<conns, files, clock>>
    /\ UNCHANGED <<sndVars, splVars, callVars, dbVars, guiVars, workerVars>>

\* StopJoin with join() called without a timeout: it returns only when the
\* accept thread has ended.
StopJoinUnbounded ==
    /\ caller.pc = "join"
    /\ ~is_alive(_thread)
    /\ _thread' = NoThread
    /\ caller' = [caller EXCEPT !.pc = "idle", !.stopped = @ + 1]
    /\ UNCHANGED <<_sock, _stop, _counter, accept_threads, port_in_use, connVars>>
    /\ UNCHANGED <<sndVars, splVars, callVars, dbVars, guiVars, workerVars>>

\* MLLPServer.stop, lines 54-58: join(timeout=1.0) returns when the accept
\* thread has ended or the second has passed, whichever is first; then
\* self._thread = None and stopped is emitted.
StopJoin ==
    /\ caller.pc = "join"
    /\ _thread' = NoThread
    /\ caller' = [caller EXCEPT !.pc = "idle", !.stopped = @ + 1]
    /\ UNCHANGED <<_sock, _stop, _counter, accept_threads, port_in_use, connVars>>
    /\ UNCHANGED <<sndVars, splVars, callVars, dbVars, guiVars, workerVars>>

\* Thread t moves to position pc of _run.
RunGoes(t, pc) == accept_threads' = [accept_threads EXCEPT ![t].pc = pc]

\* RunFails with the exception handled in silence.
RunFailsUnreported(t, msgs) ==
    accept_threads' = [accept_threads EXCEPT ![t].pc = "finally"]

\* Thread t emits the error events msgs and moves to the finally clause.
RunFails(t, msgs) ==
    accept_threads' = [accept_threads EXCEPT ![t].pc = "finally",
                                             ![t].errors = @ \o msgs]

\* _run, lines 70-72: self._sock = socket.socket(...), setsockopt.
RunCreate(t) ==
    /\ accept_threads[t].pc = "create"
    /\ _sock' = Socket(t)
    /\ backlog' = Backlog(Socket(t))
    /\ RunGoes(t, "bind")
    /\ UNCHANGED <<_stop, _thread, _counter, port_in_use, caller, conns, files, clock>>
    /\ UNCHANGED <<sndVars, splVars, callVars, dbVars, guiVars, workerVars>>

\* _run, lines 77-85: bind, listen, emit started, settimeout, all on the
\* socket self._sock names now.  bind raises OSError when the port is held
\* by another process or the socket is closed or bound already; with
\* self._sock = None the call raises AttributeError.  OSError is reported
\* twice (lines 99 and 101), any other exception once (line 103).
RunBind(t) ==
    /\ accept_threads[t].pc = "bind"
    /\ IF _sock = NoSock
         THEN RunFails(t, <<"Server error">>) /\ UNCHANGED _sock
       ELSE IF port_in_use \/ _sock.state # "new"
         THEN RunFails(t, <<"OSError", "OSError">>) /\ UNCHANGED _sock
       ELSE /\ _sock' = [_sock EXCEPT !.state = "listening"]
            /\ accept_threads' = [accept_threads EXCEPT ![t].pc = "loop",
                                                         ![t].started = TRUE]
    /\ UNCHANGED <<_stop, _thread, _counter, port_in_use, caller, connVars>>
    /\ UNCHANGED <<sndVars, splVars, callVars, dbVars, guiVars, workerVars>>

\* socket.create_connection by an analyzer: the bytes it will send.  The
\* analyzers that connect while the listener starts and stops stay silent.
PeerStreams == {<<>>}

\* An analyzer connects to the listening socket.
PeerConnect ==
    /\ _sock.state = "listening"
    /\ Len(conns) + Len(backlog) < MaxAccepted
    /\ \E stream \in PeerStreams :
           backlog' = Append(backlog, [inbox |-> stream, peer_open |-> TRUE])
    /\ UNCHANGED <<srvVars, conns, files, clock>>
    /\ UNCHANGED <<sndVars, splVars, callVars, dbVars, guiVars, workerVars>>

\* The connection accept() returns for the queued connection p, with the
\* handler thread started for it: its position in _handle_client, buf, the
\* frame in hand, the locals of _save_hl7 (ts, and the value of
\* self._counter read by "+= 1"), what it did for each frame, and whether
\* an exception ended it.
NewConn(p) ==
    [inbox |-> p.inbox, peer_open |-> p.peer_open, pc |-> "recv", buf |-> <<>>,
     frame |-> <<>>, ts |-> 0, tmp |-> 0, log |-> <<>>, exc |-> FALSE]

\* _run, lines 86-95: one turn of the accept loop.  accept() timing out
\* changes nothing and is left to stuttering.
RunLoop(t) ==
    /\ accept_threads[t].pc = "loop"
    /\ IF _stop
         THEN RunGoes(t, "finally") /\ UNCHANGED <<conns, backlog>>
       ELSE IF _sock = NoSock
         THEN RunFails(t, <<"Server error">>) /\ UNCHANGED <<conns, backlog>>
       ELSE IF _sock.state # "listening"
         THEN RunGoes(t, "finally") /\ UNCHANGED <<conns, backlog>>
       ELSE /\ backlog # <<>>
            /\ conns' = Append(conns, NewConn(Head(backlog)))
            /\ backlog' = Tail(backlog)
            /\ UNCHANGED accept_threads
    /\ UNCHANGED <<_sock, _stop, _thread, _counter, port_in_use, caller, files, clock>>
    /\ UNCHANGED <<sndVars, splVars, callVars, dbVars, guiVars, workerVars>>

\* _run, lines 104-110: close self._sock if set, self._sock = None.
RunFinally(t) ==
    /\ accept_threads[t].pc = "finally"
    /\ _sock' = NoSock
    /\ backlog' = Backlog(NoSock)
    /\ RunGoes(t, "done")
    /\ UNCHANGED <<_stop, _thread, _counter, port_in_use, caller, conns, files, clock>>
    /\ UNCHANGED <<sndVars, splVars, callVars, dbVars, guiVars, workerVars>>

\* Connection c's handler moves to position pc.
Goes(c, pc) == conns' = [conns EXCEPT ![c].pc = pc]

\* Raises ending the handler of every connection.
RaisesEveryConn(c) ==
    conns' = [d \in 1..Len(conns) |-> [conns[d] EXCEPT !.pc = "close", !.exc = TRUE]]

\* An exception leaves the loop of connection c's handler.
Raises(c) == conns' = [conns EXCEPT ![c].pc = "close", ![c].exc = TRUE]

\* Connection c's handler records what it did for the frame in hand.
Logged(c, op) == Append(conns[c].log, [op |-> op, frame |-> conns[c].frame])

\* _handle_client, lines 117-121: test the stop signal, recv.  recv returns
\* any non-empty part of the bytes sent so far, b"" once the peer has
\* closed, and raises when no byte arrives within the timeout.
HRecv(c) ==
    /\ conns[c].pc = "recv"
    /\ IF _stop
         THEN Goes(c, "close")
       ELSE IF conns[c].inbox # <<>>
         THEN \E k \in 1..Len(conns[c].inbox) :
                conns' = [conns EXCEPT
                            ![c].buf = @ \o SubSeq(conns[c].inbox, 1, k),
                            ![c].inbox = From(@, k + 1),
                            ![c].pc = "extract"]
       ELSE IF conns[c].peer_open
         THEN Raises(c)
       ELSE Goes(c, "close")
    /\ UNCHANGED <<srvVars, backlog, files, clock>>
    /\ UNCHANGED <<sndVars, splVars, callVars, dbVars, guiVars, workerVars>>

\* _handle_client, lines 122-130: cut the next frame out of buf, or go back
\* to recv.
HExtract(c) ==
    /\ conns[c].pc = "extract"
    /\ LET nf == NextFrame(conns[c].buf)
       IN  IF nf.found
             THEN conns' = [conns EXCEPT ![c].frame = nf.frame, ![c].buf = nf.buf,
                                         ![c].pc = "emit"]
             ELSE Goes(c, "recv")
    /\ UNCHANGED <<srvVars, backlog, files, clock>>
    /\ UNCHANGED <<sndVars, splVars, callVars, dbVars, guiVars, workerVars>>

\* _handle_client, line 131: self.received.emit(frame)
HEmit(c) ==
    /\ conns[c].pc = "emit"
    /\ conns' = [conns EXCEPT ![c].log = Logged(c, "received"), ![c].pc = "save_ts"]
    /\ UNCHANGED <<srvVars, backlog, files, clock>>
    /\ UNCHANGED <<sndVars, splVars, callVars, dbVars, guiVars, workerVars>>

\* _save_hl7, lines 61-62: mkdir, ts = time.strftime(...)
HSaveTs(c) ==
    /\ conns[c].pc = "save_ts"
    /\ conns' = [conns EXCEPT ![c].ts = clock, ![c].pc = "save_load"]
    /\ UNCHANGED <<srvVars, backlog, files, clock>>
    /\ UNCHANGED <<sndVars, splVars, callVars, dbVars, guiVars, workerVars>>

\* _save_hl7, line 63, "self._counter += 1": the read of self._counter
HSaveLoad(c) ==
    /\ conns[c].pc = "save_load"
    /\ conns' = [conns EXCEPT ![c].tmp = _counter, ![c].pc = "save_store"]
    /\ UNCHANGED <<srvVars, backlog, files, clock>>
    /\ UNCHANGED <<sndVars, splVars, callVars, dbVars, guiVars, workerVars>>

\* _save_hl7, line 63, "self._counter += 1": the write of self._counter
HSaveStore(c) ==
    /\ conns[c].pc = "save_store"
    /\ _counter' = conns[c].tmp + 1
    /\ Goes(c, "save_write")
    /\ UNCHANGED <<_sock, _stop, _thread, accept_threads, port_in_use, caller>>
    /\ UNCHANGED <<backlog, files, clock>>
    /\ UNCHANGED <<sndVars, splVars, callVars, dbVars, guiVars, workerVars>>

\* The name _save_hl7 gives a file: f"{ts}-{self._counter:04d}.hl7"
FileName(ts, counter) == <<ts, counter>>

\* _save_hl7, lines 64-65: the path from ts and self._counter as it is now,
\* write_bytes; the write may fail.
HSaveWrite(c) ==
    /\ conns[c].pc = "save_write"
    /\ \/ /\ files' = Append(files, [name |-> FileName(conns[c].ts, _counter),
                                       conn |-> c, frame |-> conns[c].frame])
          /\ conns' = [conns EXCEPT ![c].log = Logged(c, "saved"), ![c].pc = "ack"]
       \/ /\ Raises(c)
          /\ UNCHANGED files
    /\ UNCHANGED <<srvVars, backlog, clock>>
    /\ UNCHANGED <<sndVars, splVars, callVars, dbVars, guiVars, workerVars>>

\* _handle_client, lines 133-144: build the ACK and sendall; an exception of
\* sendall is swallowed.
HAck(c) ==
    /\ conns[c].pc = "ack"
    /\ \E op \in {"ack", "ack_failed"} :
          conns' = [conns EXCEPT ![c].log = Logged(c, op), ![c].pc = "extract"]
    /\ UNCHANGED <<srvVars, backlog, files, clock>>
    /\ UNCHANGED <<sndVars, splVars, callVars, dbVars, guiVars, workerVars>>

\* _handle_client, lines 145-149: conn.close()
HClose(c) ==
    /\ conns[c].pc = "close"
    /\ Goes(c, "done")
    /\ UNCHANGED <<srvVars, backlog, files, clock>>
    /\ UNCHANGED <<sndVars, splVars, callVars, dbVars, guiVars, workerVars>>

\* The analyzer of connection c closes its end.
PeerClose(c) ==
    /\ conns[c].pc # "done"
    /\ conns[c].peer_open
    /\ conns' = [conns EXCEPT ![c].peer_open = FALSE]
    /\ UNCHANGED <<srvVars, backlog, files, clock>>
    /\ UNCHANGED <<sndVars, splVars, callVars, dbVars, guiVars, workerVars>>

\* A second passes.
Tick ==
    /\ clock < MaxClock
    /\ clock' = clock + 1
    /\ UNCHANGED <<srvVars, conns, backlog, files>>
    /\ UNCHANGED <<sndVars, splVars, callVars, dbVars, guiVars, workerVars>>

\* ------------------------------------------------------------------------
\* Profile selection: lab_core/hl7_parser.py
\* ------------------------------------------------------------------------

\* Bound: the profiles of a configuration.
MaxProfiles == 2

\* str.__contains__: needle occurs in val as a run of consecutive characters.
Contains(val, needle) ==
    \E i \in 0..(Len(val) - Len(needle)) :
        \A k \in 1..Len(needle) : val[i + k] = needle[k]

\* A field the message does not have: parse_path returns None for it.
NoField == [none |-> TRUE, text |-> <<>>]
Field(text) == [none |-> FALSE, text |-> text]

\* parse_path for the paths of the match expressions: the field's value,
\* None when the message has no such field or the path names no field.
parse_path(segs, path) ==
    IF path \in DOMAIN segs THEN segs[path] ELSE NoField

\* A match expression "<path> contains <needle>", and one without the
\* word " contains ".
Expr(path, needle) == [wf |-> TRUE, path |-> path, needle |-> needle]
Malformed == [wf |-> FALSE, path |-> "", needle |-> <<>>]

\* field_contains: an expression without " contains " makes the unpacking
\* raise, which the except clause turns into False.
field_contains(segs, expr) ==
    IF ~expr.wf THEN FALSE
    ELSE LET val == parse_path(segs, expr.path)
         IN  ~val.none /\ Contains(val.text, expr.needle)

\* pick_profile returning None.
NoProfile == [_name |-> 0]

\* The loop of pick_profile from profile i on: the first profile whose
\* any_of is not empty and has a matching expression, merged and named.
RECURSIVE pick_profile_from(_, _, _)
pick_profile_from(profiles, segs, i) ==
    IF i > Len(profiles) THEN NoProfile
    ELSE IF /\ profiles[i].any_of # <<>>
            /\ \E k \in DOMAIN profiles[i].any_of :
                   field_contains(segs, profiles[i].any_of[k])
      THEN [_name |-> profiles[i].name]
    ELSE pick_profile_from(profiles, segs, i + 1)

\* pick_profile with the first profile standing in when none matches.
pick_profile_with_default(cfg, segs) ==
    LET found == pick_profile_from(cfg, segs, 1)
    IN  IF found = NoProfile /\ cfg # <<>> THEN [_name |-> cfg[1].name] ELSE found

pick_profile(cfg, segs) == pick_profile_from(cfg, segs, 1)

\* parse_hl7_configurable as far as the choice of the profile: ValueError
\* when no profile matches, the record of the chosen profile otherwise.
parse_hl7_configurable(segs, cfg) ==
    LET prof == pick_profile(cfg, segs)
    IN  IF prof = NoProfile THEN [raised |-> TRUE, value |-> NoProfile]
        ELSE [raised |-> FALSE, value |-> prof]

\* The messages: MSH-3 and MSH-4, either of which may be missing.
FieldValues == {NoField, Field(<<>>), Field(<<"Q">>), Field(<<"I", "Q">>)}
Segs == [{"MSH-3", "MSH-4"} -> FieldValues]

\* The any_of lists of the profiles; a profile without "match" has none.
AnyOfs ==
    {<<>>,
     <<Expr("MSH-3", <<"Q">>)>>,
     <<Expr("MSH-4", <<"I", "Q">>)>>,
     <<Malformed, Expr("MSH-4", <<"Q">>)>>,
     <<Expr("OBX-99", <<>>), Expr("MSH-3", <<"I">>)>>}

\* The configurations: up to MaxProfiles profiles, named by their place in
\* the document (the keys of a mapping are distinct).
Cfgs ==
    UNION {{[i \in 1..n |-> [name |-> i, any_of |-> a[i]]] : a \in [1..n -> AnyOfs]} :
              n \in 0..MaxProfiles}

ProfileCalls ==
    {[fn |-> "parse_hl7_configurable", segs |-> sg, cfg |-> c] : sg \in Segs, c \in Cfgs}

CallParse ==
    /\ call_pc = "ready"
    /\ call.fn = "parse_hl7_configurable"
    /\ ret' = parse_hl7_configurable(call.segs, call.cfg)
    /\ call_pc' = "returned"
    /\ UNCHANGED <<call, sndVars, splVars, dbVars, guiVars, workerVars, netVars>>

\* ------------------------------------------------------------------------
\* Code Mapper: lab_core/result_flow.py (DefaultMappingRepo)
\* ------------------------------------------------------------------------

\* Bound: the analyzer entries of a mapping document.
MaxAnalyzers == 2

\* str.lower on the characters used: two letters in both cases, a space.
LowerChar(c) == CASE c = "A" -> "a" [] c = "B" -> "b" [] OTHER -> c
lower(str) == [i \in 1..Len(str) |-> LowerChar(str[i])]

\* str.strip
RECURSIVE strip(_)
strip(str) ==
    IF str = <<>> THEN <<>>
    ELSE IF Head(str) = " " THEN strip(Tail(str))
    ELSE IF str[Len(str)] = " " THEN strip(SubSeq(str, 1, Len(str) - 1))
    ELSE str

\* re.sub(r"\s+", " ", str): every run of spaces becomes one space.
RECURSIVE collapse(_)
collapse(str) ==
    IF Len(str) < 2 THEN str
    ELSE IF str[1] = " " /\ str[2] = " " THEN collapse(Tail(str))
    ELSE <<Head(str)>> \o collapse(Tail(str))

\* DefaultMappingRepo._norm
_norm(str) == collapse(lower(strip(str)))

\* resolve_client_code finding no analyzer or no analyte: None.
NoCode == [found |-> FALSE, selected |-> 0, code |-> 0]

\* The first entry of analyzers, in order, that the test picks; 0 if none.
FirstEntry(analyzers, Picks(_)) ==
    IF \E i \in DOMAIN analyzers : Picks(i)
      THEN CHOOSE i \in DOMAIN analyzers :
               Picks(i) /\ \A j \in 1..(i - 1) : ~Picks(j)
      ELSE 0

\* resolve_client_code, lines 396-412: the first entry the name equals, or
\* whose key the name contains; failing that, the first entry whose key
\* contains the name or one of whose aliases contains it or is contained.
select_analyzer(analyzers, az_norm) ==
    LET First(i) ==
            \/ az_norm = _norm(analyzers[i].key)
            \/ \E k \in DOMAIN analyzers[i].aliases :
                   az_norm = _norm(analyzers[i].aliases[k])
            \/ Contains(az_norm, _norm(analyzers[i].key))
        Partial(i) ==
            \/ Contains(_norm(analyzers[i].key), az_norm)
            \/ \E k \in DOMAIN analyzers[i].aliases :
                   \/ Contains(_norm(analyzers[i].aliases[k]), az_norm)
                   \/ Contains(az_norm, _norm(analyzers[i].aliases[k]))
        selected == FirstEntry(analyzers, First)
    IN  IF selected # 0 THEN selected ELSE FirstEntry(analyzers, Partial)

\* DefaultMappingRepo.resolve_client_code: the entry selected and the
\* client_code of the first key of its map equal to the analyte's text.
resolve_client_code(analyzers, analyzer, obx_text) ==
    IF analyzer = <<>> \/ obx_text = <<>> THEN NoCode
    ELSE LET selected == select_analyzer(analyzers, _norm(analyzer))
             tx_norm == _norm(obx_text)
         IN  IF selected = 0 THEN NoCode
             ELSE LET map == analyzers[selected].map
                      hit == {k \in DOMAIN map : tx_norm = _norm(map[k].text)}
                  IN  IF hit = {} THEN [NoCode EXCEPT !.selected = selected]
                      ELSE [found |-> TRUE, selected |-> selected,
                            code |-> map[CHOOSE k \in hit : \A j \in hit : k <= j].client_code]

\* The mapping documents: up to MaxAnalyzers entries with distinct keys;
\* each maps the analyte "t" to a client code of its own.
MapKeys == {<<"a", "b">>, <<"b">>, <<"A", " ", "b">>}
AliasLists == {<<>>, << <<"a", " ", "b">> >>, << <<"B", "a">> >>, << <<"a">> >>}
MappingDocs ==
    UNION {{[i \in 1..n |-> [key |-> ks[i], aliases |-> as[i],
                             map |-> <<[text |-> <<"t">>, client_code |-> i]>>]] :
               ks \in {f \in [1..n -> MapKeys] : \A i, j \in 1..n : i # j => f[i] # f[j]},
               as \in [1..n -> AliasLists]} :
              n \in 1..MaxAnalyzers}

\* The analyzer names and analyte texts looked up.
LookupNames ==
    {<<>>, <<"a", "b">>, <<"A", "B">>, <<"a", " ", "b">>, <<" ", "a", "b">>, <<"b">>,
     <<"a">>, <<"B", "A">>, <<"b", " ", "a">>, <<"b", "a", " ", "b">>, <<"a", "a">>}
LookupTexts == {<<>>, <<"t">>, <<" ", "t">>, <<"b">>}

MappingCalls ==
    {[fn |-> "resolve_client_code", data |-> d, analyzer |-> a, obx_text |-> t] :
        d \in MappingDocs, a \in LookupNames, t \in LookupTexts}

CallResolve ==
    /\ call_pc = "ready"
    /\ call.fn = "resolve_client_code"
    /\ ret' = [raised |-> FALSE,
               value |-> resolve_client_code(call.data, call.analyzer, call.obx_text)]
    /\ call_pc' = "returned"
    /\ UNCHANGED <<call, sndVars, splVars, dbVars, guiVars, workerVars, netVars>>

\* ------------------------------------------------------------------------
\* Exam Resolver: lab_core/results_store.py, lab_core/result_flow.py
\* ------------------------------------------------------------------------

\* Bound: the rows of the exams table.
MaxExams == 2

\* SQL UPPER on the patient names used.
UPPER(name) == IF name = "ana" THEN "ANA" ELSE name

\* The row ORDER BY id DESC LIMIT 1 returns from a set of rows of exams.
LastById(rows) == CHOOSE e \in rows : \A o \in rows : o.id <= e.id

\* The row ORDER BY fecha DESC, hora DESC, id DESC LIMIT 1 returns.
LastByDate(rows) ==
    CHOOSE e \in rows :
        \A o \in rows : o.fecha < e.fecha \/ (o.fecha = e.fecha /\ o.id <= e.id)

\* results_store.find_exam_id_by_keys: the three queries in order, each
\* skipped when one of its keys is empty; the id of the first row found.
\* The name of an exam's patient comes from the join with patients.
find_exam_id_by_keys(exams, paciente_doc, protocolo_codigo, tubo_muestra, nombre_paciente) ==
    LET by_tubo == {e \in exams : e.tubo_muestra = tubo_muestra}
        by_doc == {e \in exams : e.paciente_doc = paciente_doc
                                  /\ e.protocolo_codigo = protocolo_codigo}
        by_name == {e \in exams : UPPER(e.nombre) = UPPER(nombre_paciente)
                                   /\ e.protocolo_codigo = protocolo_codigo}
    IN  IF Truthy(tubo_muestra) /\ by_tubo # {} THEN LastById(by_tubo).id
        ELSE IF Truthy(paciente_doc) /\ Truthy(protocolo_codigo) /\ by_doc # {}
          THEN LastByDate(by_doc).id
        ELSE IF Truthy(nombre_paciente) /\ Truthy(protocolo_codigo) /\ by_name # {}
          THEN LastByDate(by_name).id
        ELSE NoneId

\* DefaultExamRepo.get_exam_by_barcode: one query, by tubo_muestra, ORDER
\* BY fecha DESC LIMIT 1; SQLite returns any of the rows of the last date.
get_exam_by_barcode(exams, tubo_muestra) ==
    LET by_tubo == {e \in exams : e.tubo_muestra = tubo_muestra}
    IN  IF by_tubo = {} THEN {NoneId}
        ELSE {e.id : e \in {x \in by_tubo : \A o \in by_tubo : o.fecha <= x.fecha}}

\* The exams tables: up to MaxExams rows, row i with id i; fecha is the
\* day of the order, nombre the name patients has for the row's document.
PatientName(paciente_doc) == IF paciente_doc = "D1" THEN "ANA" ELSE "BOB"
ExamFields == [tubo_muestra : {"T1", "T2"}, paciente_doc : {"D1", "D2"}, fecha : {1, 2}]
ExamRow(i, f) ==
    [id |-> i, tubo_muestra |-> f.tubo_muestra, paciente_doc |-> f.paciente_doc,
     protocolo_codigo |-> "P1", nombre |-> PatientName(f.paciente_doc), fecha |-> f.fecha]
ExamTables ==
    UNION {{{ExamRow(i, f[i]) : i \in 1..n} : f \in [1..n -> ExamFields]} : n \in 0..MaxExams}

ExamCalls ==
    {[fn |-> "find_exam_id_by_keys", exams |-> ex, paciente_doc |-> d,
      protocolo_codigo |-> p, tubo_muestra |-> t, nombre_paciente |-> n] :
        ex \in ExamTables, d \in {None, "D1"}, p \in {None, "P1"},
        t \in {None, "T1", "T3"}, n \in {None, "ana"}}
    \cup {[fn |-> "get_exam_by_barcode", exams |-> ex, tubo_muestra |-> t] :
        ex \in ExamTables, t \in {"T1", "T3"}}

CallFindExam ==
    /\ call_pc = "ready"
    /\ call.fn = "find_exam_id_by_keys"
    /\ ret' = [raised |-> FALSE,
               value |-> find_exam_id_by_keys(call.exams, call.paciente_doc,
                            call.protocolo_codigo, call.tubo_muestra, call.nombre_paciente)]
    /\ call_pc' = "returned"
    /\ UNCHANGED <<call, sndVars, splVars, dbVars, guiVars, workerVars, netVars>>

CallGetExam ==
    /\ call_pc = "ready"
    /\ call.fn = "get_exam_by_barcode"
    /\ \E id \in get_exam_by_barcode(call.exams, call.tubo_muestra) :
          ret' = [raised |-> FALSE, value |-> id]
    /\ call_pc' = "returned"
    /\ UNCHANGED <<call, sndVars, splVars, dbVars, guiVars, workerVars, netVars>>

\* ------------------------------------------------------------------------
\* HTTP API client and trace writer: lab_core/result_flow.py,
\* lab_core/file_tracer.py
\* ------------------------------------------------------------------------

\* Bound: the characters of an API key or secret.
MaxKeyLen == 2

\* A URL is a sequence of tokens: a character, a percent escape, a
\* parameter name with its "=", or the mask.
Mask == "***"

\* urllib.parse.quote_plus over the characters used: the reserved ones are
\* escaped, a space becomes "+".
QuoteChar(c) ==
    CASE c = "&" -> "%26" [] c = "=" -> "%3D" [] c = " " -> "+" [] OTHER -> c
quote_plus(str) == [i \in 1..Len(str) |-> QuoteChar(str[i])]

\* urllib.parse.urlencode of an ordered dict: name=value pairs joined by "&".
RECURSIVE urlencode(_)
urlencode(params) ==
    IF params = <<>> THEN <<>>
    ELSE LET p == Head(params)
             pair == <<p.name \o "=">> \o quote_plus(p.value)
         IN  IF Len(params) = 1 THEN pair ELSE pair \o <<"&">> \o urlencode(Tail(params))

\* The HTTP exchange of requests.post: a response with a status code, or an
\* exception (timeout, connection error).
StatusCodes == {101, 200, 204, 299, 300, 304, 399, 400, 500}
Responses ==
    [kind : {"response"}, status_code : StatusCodes]
        \cup {[kind |-> "exception", status_code |-> 0]}

\* The client's request: the URL of the action, and the exception or the
\* dict returned.
ApiRequest(accion, api_key, api_secret, resp, fails_from) ==
    LET params == <<[name |-> "API_Key", value |-> api_key],
                    [name |-> "API_Secret", value |-> api_secret],
                    [name |-> "accion", value |-> <<accion>>],
                    [name |-> "idexamen", value |-> <<"7">>]>>
        url == <<"http://host/api">> \o <<"?">> \o urlencode(params)
    IN  IF resp.kind = "exception" \/ resp.status_code >= fails_from
          THEN [raised |-> TRUE, url |-> url]
          ELSE [raised |-> FALSE, url |-> url]

\* send_result that takes a redirection for a success.
send_result_from_400(api_key, api_secret, resp) ==
    ApiRequest("agregar_item_examenlab", api_key, api_secret, resp, 400)

\* DefaultApiClient.send_result: raises when resp.status_code >= 300.
send_result(api_key, api_secret, resp) ==
    ApiRequest("agregar_item_examenlab", api_key, api_secret, resp, 300)

\* DefaultApiClient.close_exam: raises when resp.status_code >= 300.
close_exam(api_key, api_secret, resp) ==
    ApiRequest("actualizar_examenlab_fecha", api_key, api_secret, resp, 300)

\* re.sub(r"(name=)[^&]+", r"\1***", url): every name= token followed by at
\* least one token other than "&" keeps the name and has the run replaced.
RECURSIVE MaskParam(_, _)
MaskParam(url, name) ==
    IF url = <<>> THEN <<>>
    ELSE IF Head(url) = name /\ Len(url) >= 2 /\ url[2] # "&"
      THEN LET rest == Tail(url)
               run == CHOOSE n \in 1..Len(rest) :
                          /\ \A i \in 1..n : rest[i] # "&"
                          /\ (n < Len(rest) => rest[n + 1] = "&")
           IN  <<name, Mask>> \o MaskParam(SubSeq(rest, run + 1, Len(rest)), name)
    ELSE <<Head(url)>> \o MaskParam(Tail(url), name)

\* save_http that masks the key only.
save_http_key_only(enabled, kind, url) ==
    IF ~enabled THEN <<>>
    ELSE <<[dir |-> kind, text |-> MaskParam(url, "API_Key=")]>>

\* FileTraceWriter.save_http: the .req.txt file written, none when the
\* writer is disabled.
save_http(enabled, kind, url) ==
    IF ~enabled THEN <<>>
    ELSE <<[dir |-> kind, text |-> MaskParam(MaskParam(url, "API_Key="), "API_Secret=")]>>

\* The credentials configured.
RECURSIVE SeqsOver(_, _)
SeqsOver(chars, n) ==
    IF n = 0 THEN {<<>>}
    ELSE LET shorter == SeqsOver(chars, n - 1)
         IN  shorter \cup {Append(q, c) : q \in shorter, c \in chars}
ApiKeys == SeqsOver({"k", "&"}, MaxKeyLen)
ApiSecrets == SeqsOver({"s", "="}, MaxKeyLen)

ApiCalls ==
    [fn : {"send_result", "close_exam"}, api_key : ApiKeys, api_secret : ApiSecrets,
     resp : Responses, trace_enabled : BOOLEAN]

\* ResultSender._send_one: send_result, then the tracer; an exception
\* becomes a FlowError with API_SEND_ERROR.
CallSendResult ==
    /\ call_pc = "ready"
    /\ call.fn = "send_result"
    /\ LET r == send_result(call.api_key, call.api_secret, call.resp)
       IN  ret' = [raised |-> r.raised,
                   code |-> IF r.raised THEN API_SEND_ERROR ELSE None,
                   files |-> IF r.raised THEN <<>>
                             ELSE save_http(call.trace_enabled, "send", r.url)]
    /\ call_pc' = "returned"
    /\ UNCHANGED <<call, sndVars, splVars, dbVars, guiVars, workerVars, netVars>>

\* ResultSender._close_exam
CallCloseExam ==
    /\ call_pc = "ready"
    /\ call.fn = "close_exam"
    /\ LET r == close_exam(call.api_key, call.api_secret, call.resp)
       IN  ret' = [raised |-> r.raised,
                   code |-> IF r.raised THEN API_SEND_ERROR ELSE None,
                   files |-> IF r.raised THEN <<>>
                             ELSE save_http(call.trace_enabled, "close", r.url)]
    /\ call_pc' = "returned"
    /\ UNCHANGED <<call, sndVars, splVars, dbVars, guiVars, workerVars, netVars>>

\* No function is called on its own.
CallsUnused ==
    /\ call = [fn |-> "none"]
    /\ call_pc = "unused"
    /\ ret = [raised |-> FALSE]

\* MLLPServer.__init__, lines 24-27, with no thread, connection or file yet.
ListenerUnused ==
    /\ _sock = NoSock
    /\ _stop = FALSE
    /\ _thread = NoThread
    /\ _counter = 0
    /\ accept_threads = <<>>
    /\ conns = <<>>
    /\ backlog = <<>>
    /\ files = <<>>
    /\ clock = 0
    /\ port_in_use = FALSE
    /\ caller = [pc |-> "idle", last |-> "none", stops |-> 0, stopped |-> 0]

\* ------------------------------------------------------------------------
\* Specifications
\* ------------------------------------------------------------------------

NoRecord ==
    [analyzer |-> "", text |-> "", value_text |-> Absent, tubo_muestra |-> None,
     barcode |-> Absent, paciente_id |-> Absent, ultimo_del_examen |-> Absent]

NoEnv ==
    [mapping |-> None,
     exam |-> [kind |-> "none", id_examen |-> NoneId, order_date |-> None, paciente_id |-> None],
     xml |-> "ok", tracer |-> "off", send |-> "ok", close |-> "ok"]

SenderUnused ==
    /\ snd_pc = "unused"
    /\ snd_rec = NoRecord
    /\ snd_env = NoEnv
    /\ snd_out = NoOutcome

\* The analyte rows a store may hold before the monitor starts: as
\* ingested, skipped by hand, or set back to PENDING by hand after a failed
\* attempt, the error of that attempt still in export_error (db.py, the
\* schema's comment and mark_obx_error).
InitialRows ==
    {ObxRow(1, "WBC", None),
     ObxRow(1, "WBC", SKIPPED),
     [mark_obx_error(<<ObxRow(1, "WBC", None)>>, 1, <<"API_SEND_ERROR", "HTTP error">>)[1]
         EXCEPT !.export_status = PENDING]}

\* The monitor after MainWindow.__init__, over a store that is empty or
\* holds one result with one analyte.
Init ==
    /\ CallsUnused
    /\ SenderUnused
    /\ SplitterUnused
    /\ ListenerUnused
    /\ \/ hl7_results = <<>> /\ hl7_obx_results = <<>>
       \/ hl7_results = <<PurgedHeader>> /\ hl7_obx_results = <<ObxRow(1, "WBC", None)>>
       \/ /\ hl7_results = <<[analyzer_name |-> "ICON3", patient_id |-> "T1"]>>
          /\ \E row \in InitialRows : hl7_obx_results = <<row>>
    /\ http_log = <<>>
    /\ export_enabled \in BOOLEAN
    /\ export_batch_size \in BatchSizes
    /\ dispatch_running = FALSE
    /\ xml_status = [text |-> "idle", stats |-> Stats(0, 0, 0)]
    /\ signals = <<>>
    /\ tick_result = "none"
    /\ workers = 0
    /\ cyc = IdleCycle
    /\ cycles = 0
    /\ last_row = NoRow

Next ==
    \/ KickDispatch
    \/ WorkerBegin
    \/ WorkerProcessRow
    \/ WorkerReturn
    \/ OnDispatchDone
    \/ OnDispatchErr
    \/ IngestResult

Spec == Init /\ [][Next]_vars

\* A steady world: the mapping file knows the analyte "WBC" only, the exam
\* of every sample exists, the XML builds and the API accepts every call.
SteadyEnv(row) ==
    [mapping |-> IF row.text = "WBC" THEN "C1" ELSE None,
     exam |-> [kind |-> "row", id_examen |-> 7, order_date |-> "2025-11-11",
               paciente_id |-> "D1"],
     xml |-> "ok",
     tracer |-> "off",
     send |-> "ok",
     close |-> "ok"]

\* The worker thread in the steady world: the setup succeeds and each row
\* meets the same collaborators in every cycle.
WorkerBeginSteady == BeginCycle("ok")

WorkerProcessRowSteady ==
    /\ cyc.todo # <<>>
    /\ ProcessRow(SteadyEnv(hl7_obx_results[cyc.todo[1].obx_id]))

\* The monitor with exporting enabled over a store of one result whose
\* pending analytes are mapped ("WBC") or not ("RBC"); no more rows than a
\* batch of one could visit within the cycles explored.
InitPending ==
    /\ CallsUnused
    /\ SenderUnused
    /\ SplitterUnused
    /\ ListenerUnused
    /\ hl7_results = <<[analyzer_name |-> "ICON3", patient_id |-> "T1"]>>
    /\ \E n \in 1..MaxCycles : \E texts \in [1..n -> {"WBC", "RBC"}] :
         hl7_obx_results = [i \in 1..n |-> ObxRow(1, texts[i], None)]
    /\ http_log = <<>>
    /\ export_enabled = TRUE
    /\ export_batch_size \in BatchSizes
    /\ dispatch_running = FALSE
    /\ xml_status = [text |-> "idle", stats |-> Stats(0, 0, 0)]
    /\ signals = <<>>
    /\ tick_result = "none"
    /\ workers = 0
    /\ cyc = IdleCycle
    /\ cycles = 0
    /\ last_row = NoRow

NextSteady ==
    \/ KickDispatch
    \/ WorkerBeginSteady
    \/ WorkerProcessRowSteady
    \/ WorkerReturn
    \/ OnDispatchDone

\* The timer keeps ticking, the worker thread keeps running and the event
\* loop keeps delivering the worker's signals.
SpecSteady ==
    /\ InitPending
    /\ [][NextSteady]_vars
    /\ WF_vars(KickDispatch)
    /\ WF_vars(WorkerBeginSteady)
    /\ WF_vars(WorkerProcessRowSteady)
    /\ WF_vars(WorkerReturn)
    /\ WF_vars(OnDispatchDone)

\* The steady world where loading the settings or the mapping file may fail.
NextFair ==
    \/ KickDispatch
    \/ WorkerBegin
    \/ WorkerProcessRowSteady
    \/ WorkerReturn
    \/ OnDispatchDone
    \/ OnDispatchErr

\* The worker thread keeps running until run() returns, and the event loop
\* of the GUI thread keeps delivering the worker's queued signals.  Nothing
\* is assumed of the timer.
SpecFair ==
    /\ InitPending
    /\ [][NextFair]_vars
    /\ WF_vars(WorkerBegin \/ WorkerProcessRowSteady \/ WorkerReturn)
    /\ WF_vars(OnDispatchDone \/ OnDispatchErr)

\* A caller of ResultSender.process_obx, with any record and any behaviour
\* of the collaborators.
SenderCall ==
    /\ snd_pc = "ready"
    /\ snd_out' = process_obx(snd_rec, snd_env)
    /\ snd_pc' = "returned"
    /\ UNCHANGED <<snd_rec, snd_env, dbVars, guiVars, workerVars, splVars, callVars, netVars>>

InitSender ==
    /\ CallsUnused
    /\ SplitterUnused
    /\ ListenerUnused
    /\ snd_pc = "ready"
    /\ snd_rec \in ObxRecords
    /\ snd_env \in Envs
    /\ snd_out = NoOutcome
    /\ hl7_results = <<>>
    /\ hl7_obx_results = <<>>
    /\ http_log = <<>>
    /\ export_enabled = FALSE
    /\ export_batch_size = 1
    /\ dispatch_running = FALSE
    /\ xml_status = [text |-> "idle", stats |-> Stats(0, 0, 0)]
    /\ signals = <<>>
    /\ tick_result = "none"
    /\ workers = 0
    /\ cyc = IdleCycle
    /\ cycles = 0
    /\ last_row = NoRow

NextSender == SenderCall

SpecSender == InitSender /\ [][NextSender]_vars

\* No store, no monitor window, no dispatch cycle.
DispatcherUnused ==
    /\ hl7_results = <<>>
    /\ hl7_obx_results = <<>>
    /\ http_log = <<>>
    /\ export_enabled = FALSE
    /\ export_batch_size = 1
    /\ dispatch_running = FALSE
    /\ xml_status = [text |-> "idle", stats |-> Stats(0, 0, 0)]
    /\ signals = <<>>
    /\ tick_result = "none"
    /\ workers = 0
    /\ cyc = IdleCycle
    /\ cycles = 0
    /\ last_row = NoRow

\* The frame splitter called with the bytes of at most MaxFrames
\* well-formed frames, or with any buffer of at most MaxBuf bytes.
InitSplit ==
    /\ CallsUnused
    /\ SenderUnused
    /\ DispatcherUnused
    /\ ListenerUnused
    /\ spl_pc = "ready"
    /\ \/ \E ps \in PayloadLists :
             /\ spl_sent = [framed |-> TRUE, payloads |-> ps]
             /\ spl_buf = Wire(ps)
       \/ /\ spl_sent = [framed |-> FALSE, payloads |-> <<>>]
          /\ spl_buf \in BytesUpTo(Bytes, MaxBuf)
    /\ spl_out = <<>>
    /\ spl_loop = [frames |-> <<>>, buf |-> <<>>]

NextSplit == SplitCall

SpecSplit == InitSplit /\ [][NextSplit]_vars

Threads == 1..Len(accept_threads)

Conns == 1..Len(conns)

\* The steps of the accept threads.
RunStep ==
    \/ \E t \in Threads : RunCreate(t)
    \/ \E t \in Threads : RunBind(t)
    \/ \E t \in Threads : RunLoop(t)
    \/ \E t \in Threads : RunFinally(t)

\* The steps of the client threads in _handle_client and _save_hl7.
HandleStep ==
    \/ \E c \in Conns : HRecv(c)
    \/ \E c \in Conns : HExtract(c)
    \/ \E c \in Conns : HEmit(c)
    \/ \E c \in Conns : HSaveTs(c)
    \/ \E c \in Conns : HSaveLoad(c)
    \/ \E c \in Conns : HSaveStore(c)
    \/ \E c \in Conns : HSaveWrite(c)
    \/ \E c \in Conns : HAck(c)
    \/ \E c \in Conns : HClose(c)

\* The steps of MLLPServer.stop in the calling thread.
StopStep ==
    \/ StopSet
    \/ StopPoke
    \/ StopClose
    \/ StopJoin

\* The listener as the monitor tab builds it: not started, the port free or
\* held by another process.  Its clients send no bytes, so that their
\* handler threads wait in recv until the peer closes, the 10 s pass or the
\* stop signal is seen; the handling of frames is the matter of SpecConn.
InitListener ==
    /\ CallsUnused
    /\ SenderUnused
    /\ SplitterUnused
    /\ DispatcherUnused
    /\ _sock = NoSock
    /\ _stop = FALSE
    /\ _thread = NoThread
    /\ _counter = 0
    /\ accept_threads = <<>>
    /\ conns = <<>>
    /\ backlog = <<>>
    /\ files = <<>>
    /\ clock = 0
    /\ port_in_use \in BOOLEAN
    /\ caller = [pc |-> "idle", last |-> "none", stops |-> 0, stopped |-> 0]

NextListener ==
    \/ Start
    \/ StopStep
    \/ RunStep
    \/ PeerConnect
    \/ \E c \in Conns : PeerClose(c)
    \/ \E c \in Conns : HRecv(c)
    \/ \E c \in Conns : HClose(c)

SpecListener == InitListener /\ [][NextListener]_vars

\* The thread that calls stop() keeps running: create_connection gives up
\* after 0.2 s, close returns, join gives up after 1 s.  Nothing is assumed
\* of the accept thread, the client threads or the analyzers.
SpecListenerFair ==
    /\ SpecListener
    /\ WF_vars(StopPoke)
    /\ WF_vars(StopClose)
    /\ WF_vars(StopJoin)

\* The bytes the analyzer of connection c sends: two frames on the first
\* connection, one on the others.
ConnStream(c) == IF c = 1 THEN Wire(<< <<"A">>, <<>> >>) ELSE Wire(<< <<"A">> >>)

\* The listener running, with MaxConns connections accepted and their
\* handler threads started.
InitConn ==
    /\ CallsUnused
    /\ SenderUnused
    /\ SplitterUnused
    /\ DispatcherUnused
    /\ _sock = [Socket(1) EXCEPT !.state = "listening"]
    /\ _stop = FALSE
    /\ _thread = 1
    /\ _counter = 0
    /\ accept_threads = <<[NewAcceptThread EXCEPT !.pc = "loop", !.started = TRUE]>>
    /\ conns = [c \in 1..MaxConns |-> NewConn([inbox |-> ConnStream(c), peer_open |-> TRUE])]
    /\ backlog = <<>>
    /\ files = <<>>
    /\ clock = 0
    /\ port_in_use = FALSE
    /\ caller = [pc |-> "idle", last |-> "start", stops |-> 0, stopped |-> 0]

NextConn ==
    \/ HandleStep
    \/ \E c \in Conns : PeerClose(c)
    \/ Tick

SpecConn == InitConn /\ [][NextConn]_vars

\* Bound: the connections analyzers make to the running listener.
MaxServed == 2

\* An analyzer connects to the running listener, to send one frame and
\* keep the connection open.
AnalyzerConnect ==
    /\ _sock.state = "listening"
    /\ Len(conns) + Len(backlog) < MaxServed
    /\ backlog' = Append(backlog, [inbox |-> Wire(<< <<>> >>), peer_open |-> TRUE])
    /\ UNCHANGED <<srvVars, conns, files, clock>>
    /\ UNCHANGED <<sndVars, splVars, callVars, dbVars, guiVars, workerVars>>

\* The listener running and accepting, no connection made yet.
InitServe ==
    /\ CallsUnused
    /\ SenderUnused
    /\ SplitterUnused
    /\ DispatcherUnused
    /\ _sock = [Socket(1) EXCEPT !.state = "listening"]
    /\ _stop = FALSE
    /\ _thread = 1
    /\ _counter = 0
    /\ accept_threads = <<[NewAcceptThread EXCEPT !.pc = "loop", !.started = TRUE]>>
    /\ conns = <<>>
    /\ backlog = <<>>
    /\ files = <<>>
    /\ clock = 0
    /\ port_in_use = FALSE
    /\ caller = [pc |-> "idle", last |-> "start", stops |-> 0, stopped |-> 0]

NextServe ==
    \/ AnalyzerConnect
    \/ \E t \in Threads : RunLoop(t)
    \/ HandleStep

SpecServe == InitServe /\ [][NextServe]_vars

\* Files ingested one after the other into an empty store.
InitIngest ==
    /\ SenderUnused
    /\ SplitterUnused
    /\ DispatcherUnused
    /\ ListenerUnused
    /\ call = [fn |-> "none"]
    /\ call_pc = "ready"
    /\ ret = [raised |-> FALSE]

NextIngest == IngestCall

SpecIngest == InitIngest /\ [][NextIngest]_vars

\* A function called on its own with any arguments of its bounded domain.
InitCalls ==
    /\ SenderUnused
    /\ SplitterUnused
    /\ DispatcherUnused
    /\ ListenerUnused
    /\ call \in ProfileCalls \cup MappingCalls \cup ExamCalls \cup ApiCalls
    /\ call_pc = "ready"
    /\ ret = [raised |-> FALSE]

NextCalls ==
    \/ CallParse
    \/ CallResolve
    \/ CallFindExam
    \/ CallGetExam
    \/ CallSendResult
    \/ CallCloseExam

SpecCalls == InitCalls /\ [][NextCalls]_vars

\* ------------------------------------------------------------------------
\* Properties
\* ------------------------------------------------------------------------

Rows == 1..Len(hl7_obx_results)

\* The number of send_result calls logged for row i.
SendCalls(log, i) ==
    LET IsSend(e) == e.op = "send_result" /\ e.obx_id = i
    IN  Len(SelectSeq(log, IsSend))

\* Row i is among the picked rows s.
Picked(s, i) == \E k \in 1..Len(s) : s[k].obx_id = i

\* C1: a row whose export_status is SENT is never picked by a later
\* selection nor left among the rows to process, no further send_result
\* call is made for it, and no step changes its export_status or its
\* export_attempts.
C1_SentIsFinal ==
    [][\A i \in Rows :
          hl7_obx_results[i].export_status = SENT =>
            /\ hl7_obx_results'[i].export_status = SENT
            /\ hl7_obx_results'[i].export_attempts = hl7_obx_results[i].export_attempts
            /\ SendCalls(http_log', i) = SendCalls(http_log, i)
            /\ ~Picked(cyc'.todo, i)
            /\ (cyc.pc = "start" => ~Picked(cyc'.pend, i))]_vars

\* A row sent in the first cycle, and a second cycle that has picked rows.
C1_Witness ==
    /\ cycles = 2
    /\ cyc.pc = "loop"
    /\ \E i \in Rows : /\ hl7_obx_results[i].export_status = SENT
                       /\ hl7_obx_results[i].exported_at = 1

\* The selection the design describes: every row whose status is neither
\* SENT nor SKIPPED, ascending, within the batch limit.
RetryingSelection(rows, limit) == SelectWhereNotIn(rows, limit, {SENT, SKIPPED})

\* C2: a cycle's selection picks the rows whose status is neither SENT nor
\* SKIPPED (so ERROR and MAPPING_NOT_FOUND rows are picked again), ascending
\* and within the batch limit.
C2_ErrorRowsRetried ==
    [][/\ (cyc.pc = "start" /\ cyc'.pc = "loop") =>
            cyc'.pend = RetryingSelection(hl7_obx_results, export_batch_size)
       /\ (cyc.pc = "start" /\ cyc'.pc = "idle" /\ Len(signals') > Len(signals)
              /\ signals'[Len(signals')].kind = "finished") =>
            RetryingSelection(hl7_obx_results, export_batch_size) = <<>>]_vars

\* Log entry k belongs to a cycle that has ended.
CycleEnded(k) == http_log[k].cycle < cycles \/ cyc.pc = "idle"

\* C3: once a cycle has ended, every exam of which it sent an analyte
\* successfully has a close_exam call of that cycle carrying its id.
C3_CloseOnFirstSuccess ==
    \A k \in 1..Len(http_log) :
        (http_log[k].op = "send_result" /\ http_log[k].result = "ok" /\ CycleEnded(k)) =>
            \E j \in 1..Len(http_log) :
                /\ http_log[j].op = "close_exam"
                /\ http_log[j].id_examen = http_log[k].id_examen
                /\ http_log[j].cycle = http_log[k].cycle

\* The call of operation op in the outcome's calls ended with result.
Called(outcome, op, result) ==
    \E k \in 1..Len(outcome.calls) :
        outcome.calls[k].op = op /\ outcome.calls[k].result = result

C5_NoOverlap ==
    /\ [](workers <= 1)
    /\ [][/\ dispatch_running => (workers' <= workers /\ cycles' = cycles)
          /\ workers' > workers => (~dispatch_running /\ dispatch_running'
                                    /\ tick_result' = "started")]_vars

\* A tick arrived while a cycle was processing its rows, and started nothing.
C5_Witness ==
    /\ tick_result = "busy"
    /\ workers = 1
    /\ cyc.pc = "loop"

\* The record has the three keys context resolution needs.
HasKeys(obx) ==
    /\ Truthy(Strip(Or(obx.analyzer, "")))
    /\ Truthy(Strip(Or(obx.text, Or(obx.value_text, ""))))
    /\ Truthy(Strip(Or(obx.tubo_muestra, Or(obx.barcode, ""))))

\* The mapping repo answered with a client code.
Mapped(env) == env.mapping # "raise" /\ Truthy(env.mapping)

\* Context resolution succeeds for the record under env.
Resolves(obx, env) ==
    /\ HasKeys(obx)
    /\ Mapped(env)
    /\ env.exam.kind = "row"
    /\ env.exam.id_examen # NoneId
    /\ Truthy(env.exam.order_date)

\* C6: process_obx never raises; it fails exactly when it reports an
\* error, a failure reports one (code, message) pair with a code of
\* ErrorCode, and an exception of the mapping repo, the exam repo, the XML
\* builder, the trace writer or the API client is reported under UNKNOWN,
\* UNKNOWN, XML_BUILD_ERROR, XML_BUILD_ERROR or API_SEND_ERROR, and
\* API_SEND_ERROR.
C6_NeverRaises ==
    snd_pc = "returned" =>
        /\ ~snd_out.raised
        /\ snd_out.ok <=> snd_out.errors = <<>>
        /\ ~snd_out.ok => /\ Len(snd_out.errors) = 1
                          /\ snd_out.errors[1][1] \in ErrorCode
                          /\ snd_out.errors[1][2] # ""
        /\ (HasKeys(snd_rec) /\ snd_env.mapping = "raise") =>
              /\ ~snd_out.ok
              /\ snd_out.errors[1][1] = UNKNOWN
        /\ (HasKeys(snd_rec) /\ Mapped(snd_env) /\ snd_env.exam.kind = "raise") =>
              /\ ~snd_out.ok
              /\ snd_out.errors[1][1] = UNKNOWN
        /\ (Resolves(snd_rec, snd_env)
              /\ (snd_env.xml = "raise" \/ snd_env.tracer = "raise_xml")) =>
              /\ ~snd_out.ok
              /\ snd_out.errors[1][1] = XML_BUILD_ERROR
        /\ (Resolves(snd_rec, snd_env) /\ snd_env.xml = "ok"
              /\ snd_env.tracer = "raise_http") =>
              /\ ~snd_out.ok
              /\ snd_out.errors[1][1] = API_SEND_ERROR
        /\ (Called(snd_out, "send_result", "raise") \/ Called(snd_out, "close_exam", "raise")) =>
              /\ ~snd_out.ok
              /\ snd_out.errors[1][1] = API_SEND_ERROR

\* The mapping repo raised, and process_obx returned the failure.
C6_Witness ==
    /\ snd_pc = "returned"
    /\ HasKeys(snd_rec)
    /\ snd_env.mapping = "raise"
    /\ snd_out.errors # <<>>

\* C7: when the mapping repo has no code, the exam repo has no row for the
\* tube code, or the exam found has no order date, process_obx returns
\* ok = false with MAPPING_NOT_FOUND, EXAM_NOT_FOUND or ORDER_DATE_MISSING
\* respectively, and has called neither send_result nor close_exam.
C7_ContextFailureSendsNothing ==
    (snd_pc = "returned" /\ HasKeys(snd_rec)) =>
        /\ snd_env.mapping = None =>
              /\ ~snd_out.ok
              /\ snd_out.errors[1][1] = MAPPING_NOT_FOUND
              /\ snd_out.calls = <<>>
        /\ (Mapped(snd_env) /\ snd_env.exam.kind = "none") =>
              /\ ~snd_out.ok
              /\ snd_out.errors[1][1] = EXAM_NOT_FOUND
              /\ snd_out.calls = <<>>
        /\ (/\ Mapped(snd_env)
            /\ snd_env.exam.kind = "row"
            /\ snd_env.exam.id_examen # NoneId
            /\ ~Truthy(snd_env.exam.order_date)) =>
              /\ ~snd_out.ok
              /\ snd_out.errors[1][1] = ORDER_DATE_MISSING
              /\ snd_out.calls = <<>>

\* An exam without order date was found while the API would have accepted
\* the result.
C7_Witness ==
    /\ snd_pc = "returned"
    /\ HasKeys(snd_rec)
    /\ Mapped(snd_env)
    /\ snd_env.exam.kind = "row"
    /\ snd_env.exam.id_examen # NoneId
    /\ ~Truthy(snd_env.exam.order_date)
    /\ snd_env.send = "ok"
    /\ snd_out.errors # <<>>

\* C8: process_obx calls close_exam only when the record's
\* ultimo_del_examen is truthy, at most once, and only right after a
\* send_result call that succeeded; with the flag false or absent it never
\* calls close_exam.
C8_CloseOnlyWhenFlagged ==
    snd_pc = "returned" =>
        \A k \in 1..Len(snd_out.calls) :
            snd_out.calls[k].op = "close_exam" =>
                /\ Truthy(Get(snd_rec.ultimo_del_examen, "py:False"))
                /\ k = 2
                /\ snd_out.calls[1].op = "send_result"
                /\ snd_out.calls[1].result = "ok"
                /\ snd_out.sent_count = 1

\* A flagged record whose result was sent and whose exam was closed.
C8_Witness ==
    /\ snd_pc = "returned"
    /\ Called(snd_out, "close_exam", "ok")
    /\ snd_out.ok

\* No row of the store is eligible, whichever statuses count as retryable.
NoEligibleRows ==
    \A i \in Rows : Coalesce(hl7_obx_results[i].export_status, "") \in {SENT, SKIPPED}

\* The step queues an errored signal.
EmitsErrored ==
    /\ Len(signals') > Len(signals)
    /\ signals'[Len(signals')].kind = "errored"

ProcessesRow == cyc.pc = "loop" /\ Len(cyc'.done) > Len(cyc.done)

\* C11: when processing a picked row fails, the row's export_status
\* becomes MAPPING_NOT_FOUND if process_obx returned and its errors include
\* MAPPING_NOT_FOUND, and ERROR for every other failure; either way the
\* cycle's error count grows by one and its sent count stays.
C11_FailureClassified ==
    [][(ProcessesRow /\ ~last_row'.ok) =>
          /\ hl7_obx_results'[last_row'.obx_id].export_status =
                IF /\ ~last_row'.exception
                   /\ \E k \in 1..Len(last_row'.errors) :
                         last_row'.errors[k][1] = MAPPING_NOT_FOUND
                  THEN MAPPING_NOT_FOUND
                  ELSE ERROR
          /\ cyc'.err = cyc.err + 1
          /\ cyc'.sent = cyc.sent]_vars

\* One cycle failed on two rows, one for its mapping and one otherwise.
C11_Witness ==
    /\ cyc.err = 2
    /\ \E i, j \in Rows :
          /\ hl7_obx_results[i].export_status = MAPPING_NOT_FOUND
          /\ hl7_obx_results[j].export_status = ERROR
          /\ hl7_obx_results[j].export_error # <<"EXCEPTION">>

PickedIds(pend) == {pend[k].obx_id : k \in 1..Len(pend)}

HasMarker(p) == Find(p, <<VT>>, 1) # 0 \/ Find(p, <<FS, CR>>, 1) # 0

\* C14 as stated: for a buffer made of N well-formed frames, N >= 0,
\* split_messages and the listener's extraction loop both return the N
\* payloads, in order.
C14_FramesSplitExactly ==
    (spl_pc = "returned" /\ spl_sent.framed) =>
        /\ spl_out = spl_sent.payloads
        /\ spl_loop.frames = spl_sent.payloads

\* C14 amended: for a buffer made of N >= 1 well-formed frames
\* split_messages returns the N payloads, in order, none holding a marker;
\* the listener's extraction loop does so for every N >= 0 and leaves no
\* byte in its buffer.
C14_FramesSplitExactlyFromOne ==
    (spl_pc = "returned" /\ spl_sent.framed) =>
        /\ spl_sent.payloads # <<>> =>
              /\ spl_out = spl_sent.payloads
              /\ \A k \in 1..Len(spl_out) : ~HasMarker(spl_out[k])
        /\ spl_loop.frames = spl_sent.payloads
        /\ spl_loop.buf = <<>>

\* A buffer of two frames, one payload holding a carriage return, was split.
C14_Witness ==
    /\ spl_pc = "returned"
    /\ spl_sent.framed
    /\ spl_buf = Wire(<< <<"A", CR>>, <<"A">> >>)
    /\ Len(spl_out) = 2

\* C15: for a buffer with no start byte and no end sequence,
\* split_messages returns one payload, the whole buffer.
C15_NoMarkersOnePayload ==
    (spl_pc = "returned" /\ ~HasMarker(spl_buf)) => spl_out = <<spl_buf>>

\* A buffer of plain bytes and a lone end byte was returned whole.
C15_Witness ==
    /\ spl_pc = "returned"
    /\ spl_buf = <<"A", FS, "A", CR>>
    /\ spl_out = <<spl_buf>>

\* The entries of log whose operation is one of ops.
Count(log, ops) == Cardinality({i \in DOMAIN log : log[i].op \in ops})

\* C16: whenever the handler of a connection reads further bytes, looks for
\* the next frame, or closes the connection, it has tried to send one
\* acknowledgment for every frame it received; a failed send does not keep
\* it from the frames that follow.
C16_AckForEveryFrame ==
    \A c \in Conns :
        conns[c].pc \in {"recv", "extract", "emit", "close", "done"} =>
            Count(conns[c].log, {"ack", "ack_failed"}) = Count(conns[c].log, {"received"})

\* The accept threads that have not ended.
AliveThreads == {t \in Threads : accept_threads[t].pc # "done"}

C18_StopReturns ==
    /\ (caller.pc # "idle") ~> (caller.pc = "idle")
    /\ [][caller.pc = "join" /\ caller'.pc = "idle" =>
            /\ _stop
            /\ _thread' = NoThread
            /\ caller'.stopped = caller.stopped + 1]_vars
    /\ [][caller.pc = "close" /\ caller'.pc = "join" => _sock' = NoSock /\ backlog' = <<>>]_vars

\* stop() has returned while the accept thread it stopped is still in its
\* accept loop and a client thread is still waiting in recv.
C18_Witness ==
    /\ caller.pc = "idle"
    /\ caller.stopped = 1
    /\ \E t \in Threads : accept_threads[t].pc = "loop"
    /\ \E c \in Conns : conns[c].pc = "recv" /\ conns[c].peer_open

\* Thread t is about to fail at bind: the port is taken, or the socket
\* self._sock names has been closed, bound or dropped by another thread.
BindFails(t) ==
    /\ accept_threads[t].pc = "bind"
    /\ port_in_use \/ _sock = NoSock \/ _sock.state # "new"

\* C19: an accept thread whose bind fails emits an error event and no
\* started event, goes to its finally clause and ends there, leaving the
\* listener with no socket.
C19_BindFailureReported ==
    /\ [][\A t \in Threads :
            (BindFails(t) /\ accept_threads'[t] # accept_threads[t]) =>
                /\ accept_threads'[t].pc = "finally"
                /\ accept_threads'[t].errors # <<>>
                /\ ~accept_threads'[t].started]_vars
    /\ [][\A t \in Threads :
            (accept_threads[t].pc = "finally" /\ accept_threads'[t] # accept_threads[t]) =>
                /\ accept_threads'[t] = [accept_threads[t] EXCEPT !.pc = "done"]
                /\ _sock' = NoSock
                /\ backlog' = <<>>]_vars
    /\ [](\A t \in Threads :
            (accept_threads[t].pc \in {"finally", "done"} /\ ~accept_threads[t].started) =>
                accept_threads[t].errors # <<>>)

\* With the port held by another process the accept thread has ended,
\* having reported the OSError and never started.
C19_Witness ==
    /\ port_in_use
    /\ Len(accept_threads) >= 1
    /\ accept_threads[1] = [pc |-> "done", started |-> FALSE, errors |-> <<"OSError", "OSError">>]
    /\ _sock = NoSock

\* C20: no two frames written by the listener have the same file name.
C20_FileNamesDistinct ==
    \A i, j \in DOMAIN files : i # j => files[i].name # files[j].name

\* Profile i of the configuration called has an any_of expression that
\* holds of the message called.
ProfileMatches(i) ==
    \E k \in DOMAIN call.cfg[i].any_of :
        LET expr == call.cfg[i].any_of[k]
        IN  /\ expr.wf
            /\ expr.path \in DOMAIN call.segs
            /\ ~call.segs[expr.path].none
            /\ Contains(call.segs[expr.path].text, expr.needle)

\* C21: parse_hl7_configurable goes on with the first profile, in
\* declaration order, that has a matching any_of expression, and raises
\* when no profile has one.
C21_FirstMatchingProfile ==
    (call_pc = "returned" /\ call.fn = "parse_hl7_configurable") =>
        LET matching == {i \in DOMAIN call.cfg : ProfileMatches(i)}
        IN  IF matching = {}
              THEN ret.raised /\ ret.value = NoProfile
              ELSE /\ ~ret.raised
                   /\ ret.value._name \in matching
                   /\ \A i \in matching : ret.value._name <= i

\* The second profile was chosen although the first has expressions, none
\* of which matches; and a call with profiles but no match raised.
C21_Witness ==
    /\ call_pc = "returned"
    /\ call.fn = "parse_hl7_configurable"
    /\ Len(call.cfg) = 2
    /\ call.cfg[1].any_of # <<>>
    /\ ~ret.raised
    /\ ret.value._name = 2

\* The analyte rows of result result_id, in the store obx.
RowsOf(obx, result_id) == {i \in DOMAIN obx : obx[i].result_id = result_id}

\* C22: an ingestion that succeeds adds one header row and, for a message
\* of K analytes, K analyte rows owned by that header, and leaves the rows
\* that were there as they were; nothing is looked up, so the same file
\* ingested again adds a further header with K rows of its own.
C22_IngestAppends ==
    [][(call'.fn = "ingest_result_file" /\ ~ret'.raised /\ <<call, ret, dbVars>>' # <<call, ret, dbVars>>) =>
          LET K == Len(call'.m.texts)
              new_id == Len(hl7_results) + 1
          IN  /\ Len(hl7_results') = Len(hl7_results) + 1
              /\ SubSeq(hl7_results', 1, Len(hl7_results)) = hl7_results
              /\ hl7_results'[new_id].analyzer_name = call'.m.analyzer_name
              /\ Len(hl7_obx_results') = Len(hl7_obx_results) + K
              /\ SubSeq(hl7_obx_results', 1, Len(hl7_obx_results)) = hl7_obx_results
              /\ Cardinality(RowsOf(hl7_obx_results', new_id)) = K
              /\ \A k \in 1..K :
                    hl7_obx_results'[Len(hl7_obx_results) + k].text = call'.m.texts[k]]_vars

\* The same one-analyte message was ingested twice: two equal headers,
\* each owning one row.
C22_Witness ==
    /\ call_pc = "returned"
    /\ ~ret.raised
    /\ Len(hl7_results) = 2
    /\ hl7_results[1] = hl7_results[2]
    /\ Cardinality(RowsOf(hl7_obx_results, 1)) = 1
    /\ Cardinality(RowsOf(hl7_obx_results, 2)) = 1

\* C23: an ingestion that fails, at whatever stage, raises to its caller
\* and leaves the store without the header and without any analyte row of
\* the file.
C23_IngestAtomic ==
    [][(call'.fn = "ingest_result_file" /\ call'.fail.stage # "none") =>
          /\ ret'.raised
          /\ hl7_results' = hl7_results
          /\ hl7_obx_results' = hl7_obx_results]_vars

\* The INSERT of the second analyte of a file failed, after the header and
\* the first analyte had been inserted, and the store is still empty.
C23_Witness ==
    /\ call_pc = "returned"
    /\ call.fn = "ingest_result_file"
    /\ call.fail = [stage |-> "insert", k |-> 2]
    /\ ret.raised
    /\ hl7_results = <<>>
    /\ hl7_obx_results = <<>>

\* A name without its spaces and in lower case.
Squash(str) == SelectSeq(lower(str), LAMBDA c : c # " ")

\* The names of entry i of a mapping document: its key and its aliases.
NamesOf(data, i) ==
    {data[i].key} \cup {data[i].aliases[k] : k \in DOMAIN data[i].aliases}

\* No two entries of the document have names that are equal but for
\* letter case and spaces.
Unambiguous(data) ==
    \A i, j \in DOMAIN data :
        i # j => \A x \in NamesOf(data, i), y \in NamesOf(data, j) : Squash(x) # Squash(y)

\* C24: in a document whose entries do not share a name, a lookup by a
\* name that is an alias of an entry, in any letter case and with or
\* without spaces, returns what the lookup by that entry's canonical name
\* returns; an analyte that is not in the map gives None.
C24_AliasLikeCanonical ==
    (/\ call_pc = "returned"
     /\ call.fn = "resolve_client_code"
     /\ call.obx_text # <<>>
     /\ Unambiguous(call.data)) =>
        /\ \A i \in DOMAIN call.data : \A k \in DOMAIN call.data[i].aliases :
              (call.analyzer # <<>> /\ Squash(call.analyzer) = Squash(call.data[i].aliases[k])) =>
                  ret.value.code =
                      resolve_client_code(call.data, call.data[i].key, call.obx_text).code
        /\ Squash(call.obx_text) # <<"t">> => ~ret.value.found

\* C25: the entry the Code Mapper selects has a canonical name or an alias
\* equal, after normalization, to the analyzer name looked up.
C25_ExactAnalyzerMatch ==
    (call_pc = "returned" /\ call.fn = "resolve_client_code" /\ ret.value.selected # 0) =>
        \E x \in NamesOf(call.data, ret.value.selected) : _norm(x) = _norm(call.analyzer)

\* The exams of a call that match each key, in the order the keys are tried;
\* get_exam_by_barcode is given the tube code only.
KeyMatches(c) ==
    LET by_tubo == {e \in c.exams : Truthy(c.tubo_muestra) /\ e.tubo_muestra = c.tubo_muestra}
    IN  IF c.fn = "get_exam_by_barcode" THEN <<by_tubo>>
        ELSE <<by_tubo,
               {e \in c.exams : /\ Truthy(c.paciente_doc) /\ Truthy(c.protocolo_codigo)
                                /\ e.paciente_doc = c.paciente_doc
                                /\ e.protocolo_codigo = c.protocolo_codigo},
               {e \in c.exams : /\ Truthy(c.nombre_paciente) /\ Truthy(c.protocolo_codigo)
                                /\ UPPER(e.nombre) = UPPER(c.nombre_paciente)
                                /\ e.protocolo_codigo = c.protocolo_codigo}>>

\* C26: exam resolution returns an exam of the latest date among those that
\* match the first key with a match, and not-found only when no key matches.
C26_MostRecentOfFirstKey ==
    (call_pc = "returned" /\ call.fn \in {"find_exam_id_by_keys", "get_exam_by_barcode"}) =>
        LET keys == KeyMatches(call)
            hits == {k \in DOMAIN keys : keys[k] # {}}
        IN  /\ ~ret.raised
            /\ hits = {} => ret.value = NoneId
            /\ hits # {} =>
                 LET first == keys[CHOOSE k \in hits : \A j \in hits : k <= j]
                 IN  \E e \in first : /\ e.id = ret.value
                                      /\ \A o \in first : o.fecha <= e.fecha

\* C27 (as amended): send_result and close_exam raise, and the step reports
\* API_SEND_ERROR, exactly when no response arrives or the response status
\* is 300 or more; a status below 300 is a success.
C27_FailsFrom300 ==
    (call_pc = "returned" /\ call.fn \in {"send_result", "close_exam"}) =>
        /\ ret.raised <=> (call.resp.kind = "exception" \/ call.resp.status_code >= 300)
        /\ ret.raised <=> (ret.code = API_SEND_ERROR)

\* A redirection status was answered and the call raised.
C27_Witness ==
    /\ call_pc = "returned"
    /\ call.fn = "send_result"
    /\ call.resp.kind = "response"
    /\ call.resp.status_code \in 300..399
    /\ ret.raised
    /\ ret.code = API_SEND_ERROR

\* C27 (as stated): the calls raise exactly when the response status is
\* outside 200..399.
C27_FailsOutside2xx3xx ==
    (call_pc = "returned" /\ call.fn \in {"send_result", "close_exam"}
        /\ call.resp.kind = "response") =>
        (ret.raised <=> call.resp.status_code \notin 200..399)

\* What follows a parameter name in a URL, up to the next "&".
ValueOf(url, name) ==
    LET at == CHOOSE i \in 1..Len(url) : url[i] = name
        rest == SubSeq(url, at + 1, Len(url))
        stops == {i \in 1..Len(rest) : rest[i] = "&"}
    IN  IF stops = {} THEN rest
        ELSE SubSeq(rest, 1, (CHOOSE i \in stops : \A j \in stops : i <= j) - 1)

\* C28: in every request file the trace writer writes, for a send and for
\* a close, the values of API_Key and API_Secret are the mask, and the key
\* and the secret, as quoted in the URL, occur nowhere in the file.
C28_CredentialsMasked ==
    (call_pc = "returned" /\ call.fn \in {"send_result", "close_exam"}) =>
        \A i \in 1..Len(ret.files) :
            LET text == ret.files[i].text
            IN  /\ call.api_key # <<>> =>
                     /\ ValueOf(text, "API_Key=") = <<Mask>>
                     /\ ~Contains(text, quote_plus(call.api_key))
                /\ call.api_secret # <<>> =>
                     /\ ValueOf(text, "API_Secret=") = <<Mask>>
                     /\ ~Contains(text, quote_plus(call.api_secret))

\* A close request with a key and a secret holding reserved characters was
\* traced.
C28_Witness ==
    /\ call_pc = "returned"
    /\ call.fn = "close_exam"
    /\ call.api_key = <<"k", "&">>
    /\ call.api_secret = <<"=", "s">>
    /\ Len(ret.files) = 1
    /\ ret.files[1].dir = "close"

\* C29: within one dispatch cycle, of two picked rows of the same result
\* the one with the smaller row id is processed first.
C29_AscendingWithinResult ==
    \A i, j \in 1..Len(cyc.done) :
        (/\ i < j
         /\ hl7_obx_results[cyc.done[i]].result_id = hl7_obx_results[cyc.done[j]].result_id)
            => cyc.done[i] < cyc.done[j]

\* A cycle processed two rows of one result.
C29_Witness ==
    /\ Len(cyc.done) = 2
    /\ hl7_obx_results[cyc.done[1]].result_id = hl7_obx_results[cyc.done[2]].result_id

\* C30: a step that fails on a picked row leaves the row marked, the cycle
\* running with the connection open and the later picked rows still to
\* process; the cycle ends only when every picked row was processed, and
\* with the connection closed.
C30_FailureDoesNotStopCycle ==
    [][/\ (ProcessesRow /\ ~last_row'.ok) =>
            /\ hl7_obx_results'[last_row'.obx_id].export_status \in {ERROR, MAPPING_NOT_FOUND}
            /\ cyc'.pc = "loop"
            /\ cyc'.conn_open
            /\ cyc'.todo = Tail(cyc.todo)
       /\ (cyc.pc = "loop" /\ cyc'.pc # "loop") =>
            /\ cyc.todo = <<>>
            /\ PickedIds(cyc.pend) = {cyc.done[k] : k \in 1..Len(cyc.done)}
            /\ ~cyc'.conn_open]_vars

\* The first of two picked rows failed and the second was sent.
C30_Witness ==
    /\ Len(cyc.done) = 2
    /\ hl7_obx_results[cyc.done[1]].export_status \in {ERROR, MAPPING_NOT_FOUND}
    /\ last_row.obx_id = cyc.done[2]
    /\ last_row.ok
    /\ hl7_obx_results[cyc.done[2]].export_status = SENT

\* The first step of the flow that fails for a record and its
\* collaborators, in the order of the flow, with the code the design gives
\* it; a repository that raises is given the code repo_raises.  Step 0: no
\* step fails.
FirstFailure(rec, env, repo_raises) ==
    LET Step(n, code) == [step |-> n, code |-> code]
    IN  IF ~Truthy(Strip(Or(rec.analyzer, ""))) THEN Step(1, MAPPING_NOT_FOUND)
        ELSE IF ~Truthy(Strip(Or(rec.text, Or(rec.value_text, ""))))
          THEN Step(2, MAPPING_NOT_FOUND)
        ELSE IF ~Truthy(Strip(Or(rec.tubo_muestra, Or(rec.barcode, ""))))
          THEN Step(3, EXAM_NOT_FOUND)
        ELSE IF env.mapping = "raise"
          THEN Step(4, IF repo_raises = "as listed" THEN MAPPING_NOT_FOUND ELSE repo_raises)
        ELSE IF env.mapping = None THEN Step(4, MAPPING_NOT_FOUND)
        ELSE IF env.exam.kind = "raise"
          THEN Step(5, IF repo_raises = "as listed" THEN EXAM_NOT_FOUND ELSE repo_raises)
        ELSE IF env.exam.kind = "none" \/ env.exam.id_examen = NoneId
          THEN Step(5, EXAM_NOT_FOUND)
        ELSE IF ~Truthy(env.exam.order_date) THEN Step(6, ORDER_DATE_MISSING)
        ELSE IF env.xml = "raise" \/ env.tracer = "raise_xml" THEN Step(7, XML_BUILD_ERROR)
        ELSE IF env.send = "raise" \/ env.tracer = "raise_http" THEN Step(8, API_SEND_ERROR)
        ELSE IF Truthy(Get(rec.ultimo_del_examen, "py:False")) /\ env.close = "raise"
          THEN Step(9, API_SEND_ERROR)
        ELSE Step(0, "")

\* The outcome reports the failure f and shows no step after the failing
\* one: no API call before the send step, no close after a failed send.
ReportsFirstFailure(out, f) ==
    /\ out.ok <=> f.step = 0
    /\ f.step # 0 =>
          /\ Len(out.errors) = 1
          /\ out.errors[1][1] = f.code
          /\ f.step < 8 => out.calls = <<>> /\ out.sent_count = 0
          /\ f.step = 8 => /\ Len(out.calls) = 1
                           /\ out.calls[1].op = "send_result"
                           /\ out.sent_count = 0
          /\ f.step = 9 => /\ Len(out.calls) = 2
                           /\ out.calls[2].op = "close_exam"
                           /\ out.sent_count = 1

\* C31 (as amended): a failed process_obx reports exactly one (code,
\* message) pair, that of the first failing step in the order of the flow,
\* where a mapping or exam repository that raises is reported under
\* UNKNOWN; no later step is executed.
C31_FirstFailureOrUnknown ==
    snd_pc = "returned" =>
        ReportsFirstFailure(snd_out, FirstFailure(snd_rec, snd_env, UNKNOWN))

\* A record whose mapping and exam are both missing and whose send would
\* fail reported the mapping alone.
C31_Witness ==
    /\ snd_pc = "returned"
    /\ Truthy(Strip(Or(snd_rec.analyzer, "")))
    /\ Truthy(snd_rec.text)
    /\ Truthy(snd_rec.tubo_muestra)
    /\ snd_env.mapping = None
    /\ snd_env.exam.kind = "none"
    /\ snd_env.xml = "raise"
    /\ snd_env.send = "raise"
    /\ snd_out.errors # <<>>
    /\ snd_out.errors[1][1] = MAPPING_NOT_FOUND
    /\ snd_out.calls = <<>>

\* C31 (as stated): the pair reported is that of the first failing step
\* with the codes listed, the mapping lookup under MAPPING_NOT_FOUND and the
\* exam lookup under EXAM_NOT_FOUND.
C31_FirstFailureAsListed ==
    snd_pc = "returned" =>
        ReportsFirstFailure(snd_out, FirstFailure(snd_rec, snd_env, "as listed"))

\* C32: for any input buffer, no payload returned by split_messages and no
\* frame cut out by the listener's extraction loop holds a start byte or an
\* end sequence.
C32_NoMarkerLeaks ==
    spl_pc = "returned" =>
        /\ \A k \in 1..Len(spl_out) : ~HasMarker(spl_out[k])
        /\ \A k \in 1..Len(spl_loop.frames) : ~HasMarker(spl_loop.frames[k])

\* C33: the bytes of a frame that has begun and has no end sequence yet are
\* not delivered: when the bytes read from a connection end inside a frame,
\* the payloads delivered are those of the complete frames before it, by
\* TCPReceiver._handle (which delivers split_messages of the bytes read) as
\* by the listener's extraction loop.
C33_IncompleteFrameNotDelivered ==
    (spl_pc = "returned" /\ Find(spl_loop.buf, <<VT>>, 1) # 0) =>
        spl_out = spl_loop.frames

\* C34: the listener emits received for a frame only after it has saved the
\* frame's file: in what a handler did, every received is preceded by the
\* saved of the same frame.
C34_SavedBeforeNotified ==
    \A c \in 1..Len(conns) :
        \A k \in 1..Len(conns[c].log) :
            conns[c].log[k].op = "received" =>
                /\ k > 1
                /\ conns[c].log[k - 1] = [op |-> "saved", frame |-> conns[c].log[k].frame]

\* C35: a step in which the handler of one connection raises, or goes on
\* after it raised, changes that connection alone: the accept thread, the
\* listening socket, the connections waiting to be accepted and every other
\* connection's handler are as before, and the accept loop is still
\* accepting.
C35_ExceptionIsolated ==
    [][\A c \in 1..Len(conns) :
          (conns'[c].exc /\ conns'[c] # conns[c]) =>
              /\ conns'[c].pc \in {"close", "done"}
              /\ UNCHANGED <<srvVars, backlog>>
              /\ Len(conns') = Len(conns)
              /\ \A d \in 1..Len(conns) : d # c => conns'[d] = conns[d]
              /\ accept_threads'[1].pc = "loop"
              /\ _sock'.state = "listening"]_vars

\* The handler of the first connection ended with the exception of a
\* failed save; the second connection was accepted and its frame saved and
\* acknowledged.
C35_Witness ==
    /\ Len(conns) = 2
    /\ conns[1].exc
    /\ conns[1].pc = "done"
    /\ conns[1].log = <<[op |-> "received", frame |-> <<>>]>>
    /\ ~conns[2].exc
    /\ conns[2].log # <<>>
    /\ conns[2].log[Len(conns[2].log)].op = "ack"
    /\ accept_threads[1].pc = "loop"

\* The send_result call for row i of the cycle running now returned
\* success, according to the log of API calls.
Delivered(log, i, cycle) ==
    \E k \in 1..Len(log) :
        /\ log[k].op = "send_result"
        /\ log[k].result = "ok"
        /\ log[k].obx_id = i
        /\ log[k].cycle = cycle

\* C36: a step that marks a row SENT is a step of a dispatch cycle in which
\* a send_result call for that row has returned success.
C36_SentOnlyAfterDelivery ==
    [][\A i \in 1..Len(hl7_obx_results) :
          (/\ hl7_obx_results'[i].export_status = SENT
           /\ hl7_obx_results[i].export_status # SENT) =>
              /\ cyc.pc = "loop"
              /\ Delivered(http_log', i, cycles)]_vars

\* Of the two rows of a cycle one was delivered and marked SENT and the
\* other, not delivered, was not.
C36_Witness ==
    /\ Len(cyc.done) = 2
    /\ \E i, j \in {cyc.done[1], cyc.done[2]} :
          /\ hl7_obx_results[i].export_status = SENT
          /\ Delivered(http_log, i, cycles)
          /\ hl7_obx_results[j].export_status # SENT
          /\ ~Delivered(http_log, j, cycles)

C38_NewSocketStaysOpen ==
    (/\ caller.pc = "idle"
     /\ caller.last = "start"
     /\ caller.stopped > 0
     /\ _thread # NoThread
     /\ accept_threads[_thread].pc = "loop")
        => _sock.state = "listening"

\* C39: the re-entrancy flag is set only while a cycle runs or its signal
\* waits in the event queue, and a set flag is always reset: every started
\* cycle, ending normally or with an exception, leads to
\* _dispatch_running = False, after which a timer tick may start a cycle.
C39_FlagReleased ==
    /\ []((workers = 0 /\ signals = <<>>) => ~dispatch_running)
    /\ dispatch_running ~> ~dispatch_running

\* A cycle ended with an exception and the flag was reset by the errored slot.
C39_Witness ==
    /\ xml_status.text = "error"
    /\ ~dispatch_running
    /\ workers = 0
    /\ cycles > 0

====
